---- MODULE Spec2Model ----
(***************************************************************************)
(* Model of the planning data model (agent/planning.py) and of the         *)
(* planning-mode executor (agent/core.py, Agent._execute_plan).            *)
(*                                                                         *)
(* A plan is a sequence of PlanStep records.  A step is referred to by its *)
(* 1-based position; get_next_executable_step returns a position, 0 for    *)
(* None.  Tool outcomes are an input of the executor: ok = TRUE when the   *)
(* tool exists and tool.is_successful(result) holds.  Sleeps are skipped.  *)
(***************************************************************************)
EXTENDS Integers, Sequences, FiniteSets

\* ---- bounds of the model -------------------------------------------------
MaxSteps == 3          \* longest plan the executor is run on
MaxIter == 5           \* largest configured max_iterations
PlannerSteps == 3
ParseSteps == 2         \* steps of a response handed to the parser
MaxDeps == 2            \* length of a declared dependency list
MaxCalls == 2           \* calls made of the registry
ChatIter == 2           \* max_iterations of a chat turn
MaxToolCalls == 2       \* tool calls in one reactive response
MaxOverlayOps == 4      \* operations called on the overlay manager
MaxCommands == 3        \* commands sent to one overlay child
MaxDispatches == 3      \* commands dispatched to one overlay window
MaxDetects == 3         \* calls of detect_all_templates
MaxLines == 3           \* passes of the interactive loop
ScreenWidth == 4        \* pyautogui.size(), width
ScreenHeight == 3       \* pyautogui.size(), height
MaxStrLen == 3          \* characters in a query or a target name      \* longest plan handed to the planner queries
MaxNameParts == 2       \* parts between the stem and the extension of a file name
RunSteps == 2          \* steps of a plan run with its tools
RunIter == 4           \* Agent.max_iterations of a plan run with its tools
MaxQueryParts == 3     \* pieces a shortcut query is made of

\* ---- program constants ---------------------------------------------------
DefaultMaxRetries == 3         \* PlanStep.max_retries
PauseAfterFailures == 3        \* consecutive failures before the 5 s pause

PlanStatus == {"pending", "in_progress", "completed", "failed", "blocked", "retrying"}

VARIABLES
    steps,                 \* current_plan.steps
    plan_status,           \* current_plan.status
    max_iterations,        \* Agent.max_iterations
    iteration,             \* local of _execute_plan
    consecutive_failures,  \* local of _execute_plan
    next_step,             \* local of _execute_plan (position, 0 = None)
    pc,                    \* where the turn is
    exit_path,             \* which return of _execute_plan was taken
    history_len,           \* len(planner.execution_history)
    attempts,              \* per step: tool executions so far (capped)
    failures,              \* per step: recorded failures so far (capped)
    query,                 \* last answer of a planner query
    input,                 \* argument handed to the function under study
    last_call_time,        \* ToolRegistry.last_call_time (ticks)
    call_count,            \* ToolRegistry.call_count
    last_tool,             \* ToolRegistry.last_tool ("None" when unset)
    now,                   \* time.time() in ticks of 0.1 s
    last_tool_time,        \* Agent.last_tool_time (ticks)
    tool_call_count,       \* Agent.tool_call_count
    call,                  \* what the last call of the registry did
    ncalls,                \* calls made so far
    history,               \* Agent.history (roles of the messages)
    r_iteration,           \* local iteration of _chat_reactive
    tool_calls,            \* tool calls of the response still to execute
    executed,              \* tool calls executed through the wrapper, in order
    returned,              \* tool calls the model returned, in order
    overlay,               \* OverlayManager and the child processes it started
    ipc,                   \* command file, trigger file, manager and child at work
    window,                \* OverlayWindow: panel offsets and shape list
    vision,                \* detection cache of the vision module
    session,               \* the interactive loop of main()
    mouse,                 \* screen and pointer under mouse_click
    run                    \* what _execute_plan did so far: pauses, last outcome

\* State of _chat_reactive's for loop and its record.
reactvars == <<tool_calls, executed, returned>>

\* State of the parts outside the agent and its registry.
subsysvars == <<overlay, ipc, window, vision, session, mouse>>

envvars == <<input, last_call_time, call_count, last_tool, now, last_tool_time,
             tool_call_count, call, ncalls, history, r_iteration, reactvars,
             subsysvars, run>>

planvars == <<steps, plan_status, max_iterations, iteration, consecutive_failures,
              next_step, exit_path, history_len, attempts, failures>>

vars == <<steps, plan_status, max_iterations, iteration, consecutive_failures,
          next_step, pc, exit_path, history_len, attempts, failures, query,
          envvars>>

CooldownTicks == 5              \* ToolRegistry.min_tool_cooldown, 0.5 s
ConflictWindowTicks == 20       \* conflict window of _has_conflict, 2.0 s
RateLimitTicks == 5             \* spacing kept by _execute_tool_safe, 0.5 s

CountCap == DefaultMaxRetries + 2

\* ---- tools and the registry at start-up ------------------------------------
RegisteredTools ==
    {"draw_overlay", "keyboard_shortcut", "mouse_click", "type_text", "find_file"}

\* time.time() lies far beyond both windows of the zero timestamps.
ClockStart == ConflictWindowTicks

\* No call made yet.  tool..result describe the last call of the registry;
\* before_* are the registry's records when that call arrived; inv_tool and
\* inv_at are the last tool whose run was entered before it, and when it ended;
\* dispatched says that _execute_tool_safe handed the call to the registry,
\* prev_end when the call it handed over before this one returned (0: none).
NoCall ==
    [kind |-> "none", tool |-> "None", args |-> "none", arrived |-> 0,
     ran |-> FALSE, run_at |-> 0, done_at |-> 0, outcome |-> "none",
     result |-> [error |-> "none", own |-> FALSE, success |-> FALSE],
     before_time |-> 0, before_count |-> 0, before_last_tool |-> "None",
     inv_tool |-> "None", inv_at |-> 0,
     dispatched |-> FALSE, prev_end |-> 0]

\* A part no operation of which is under study.
Idle == [kind |-> "idle"]

OverlayIdle == overlay = Idle /\ ipc = Idle /\ window = Idle

SubsysIdle ==
    /\ OverlayIdle
    /\ vision = Idle
    /\ session = Idle
    /\ mouse = Idle

AgentIdle ==
    /\ last_call_time = [t \in RegisteredTools |-> 0]
    /\ call_count = [t \in RegisteredTools |-> 0]
    /\ last_tool = "None"
    /\ now = ClockStart
    /\ last_tool_time = 0
    /\ tool_call_count = 0
    /\ call = NoCall
    /\ ncalls = 0
    /\ history = <<>>
    /\ r_iteration = 0
    /\ tool_calls = <<>>
    /\ executed = <<>>
    /\ returned = <<>>
    /\ run = Idle

RegistryIdle == AgentIdle /\ SubsysIdle

\* Everything but the parts outside the agent is at rest, at place p.
AtRest(p) ==
    /\ steps = <<>>
    /\ plan_status = "pending"
    /\ max_iterations = 1
    /\ iteration = 0
    /\ consecutive_failures = 0
    /\ next_step = 0
    /\ exit_path = "none"
    /\ history_len = 0
    /\ attempts = <<>>
    /\ failures = <<>>
    /\ pc = p
    /\ query = [fn |-> "none"]
    /\ input = [kind |-> "none"]
    /\ AgentIdle

agentvars == <<last_call_time, call_count, last_tool, now, last_tool_time,
               tool_call_count, call, ncalls, history, r_iteration, reactvars,
               run>>

EnvIdle ==
    /\ input = [kind |-> "none"]
    /\ RegistryIdle

Min(a, b) == IF a < b THEN a ELSE b

\* ---- PlanStep ------------------------------------------------------------
PlanStep(n, deps) ==
    [step_number |-> n, dependencies |-> deps, status |-> "pending",
     result |-> "none", error |-> "none", retry_count |-> 0,
     max_retries |-> DefaultMaxRetries]

can_retry(s) == s.retry_count < s.max_retries /\ s.status = "failed"

start(s) == [s EXCEPT !.status = "in_progress"]

complete(s) == [s EXCEPT !.status = "completed", !.result = "result"]

fail(s) == [s EXCEPT !.status = "failed", !.error = "error"]

retry(s) == [s EXCEPT !.retry_count = s.retry_count + 1,
                      !.status = "retrying", !.error = "none"]

\* ---- DynamicPlanner ------------------------------------------------------
dependencies_met_unguarded(ss, s) == TRUE

dependencies_met(ss, s) ==
    \A dep \in s.dependencies :
        (0 < dep /\ dep <= Len(ss)) => ss[dep].status = "completed"

RECURSIVE scan_steps_retry_always(_, _)
scan_steps_retry_always(ss, i) ==
    IF i > Len(ss) THEN 0
    ELSE IF ss[i].status \in {"completed", "in_progress"}
         THEN scan_steps_retry_always(ss, i + 1)
    ELSE IF ss[i].status = "failed" THEN i
    ELSE IF dependencies_met(ss, ss[i]) THEN i
    ELSE scan_steps_retry_always(ss, i + 1)

RECURSIVE scan_steps_completed_too(_, _)
scan_steps_completed_too(ss, i) ==
    IF i > Len(ss) THEN 0
    ELSE IF ss[i].status = "in_progress" THEN scan_steps_completed_too(ss, i + 1)
    ELSE IF ss[i].status = "failed"
         THEN (IF can_retry(ss[i]) THEN i ELSE scan_steps_completed_too(ss, i + 1))
    ELSE IF dependencies_met(ss, ss[i]) THEN i
    ELSE scan_steps_completed_too(ss, i + 1)

RECURSIVE scan_steps(_, _)
scan_steps(ss, i) ==
    IF i > Len(ss) THEN 0
    ELSE IF ss[i].status \in {"completed", "in_progress"} THEN scan_steps(ss, i + 1)
    ELSE IF ss[i].status = "failed"
         THEN (IF can_retry(ss[i]) THEN i ELSE scan_steps(ss, i + 1))
    ELSE IF dependencies_met(ss, ss[i]) THEN i
    ELSE scan_steps(ss, i + 1)

get_next_executable_step(ss) == scan_steps(ss, 1)

update_step_result(s, ok) == IF ok THEN complete(s) ELSE fail(s)

RECURSIVE all_completed(_, _)
all_completed(ss, i) ==
    IF i > Len(ss) THEN TRUE
    ELSE IF ss[i].status = "completed" THEN all_completed(ss, i + 1)
    ELSE FALSE

is_plan_complete_nothing_pending(ss) ==
    \A i \in 1..Len(ss) : ss[i].status \in {"completed", "failed"}

is_plan_complete(ss) == all_completed(ss, 1)

failed_steps(ss) ==
    {ss[i].step_number : i \in {k \in 1..Len(ss) :
        ss[k].status = "failed" /\ ~can_retry(ss[k])}}

is_plan_blocked_stuck_only(ss) ==
    /\ \E i \in 1..Len(ss) : ss[i].status \in {"pending", "retrying"}
    /\ get_next_executable_step(ss) = 0

is_plan_blocked(ss) ==
    LET failed == failed_steps(ss)
        dependent_waits ==
            /\ failed # {}
            /\ \E i \in 1..Len(ss) :
                  /\ ss[i].status \in {"pending", "retrying"}
                  /\ \E dep \in ss[i].dependencies : dep \in failed
        has_pending ==
            \E i \in 1..Len(ss) : ss[i].status \in {"pending", "retrying"}
        has_executable == get_next_executable_step(ss) # 0
    IN  IF dependent_waits THEN TRUE
        ELSE has_pending /\ ~has_executable

\* ---- plans the executor is run on ----------------------------------------
\* parse_plan_from_response keeps only the dependencies within 1..N.
ParsedPlan(n, deps) == [i \in 1..n |-> PlanStep(i, deps[i] \cap (1..n))]

ZeroCount(ss) == [i \in 1..Len(ss) |-> 0]

Init ==
    /\ \E n \in 0..MaxSteps :
          \E deps \in [1..n -> SUBSET (1..n)] : steps = ParsedPlan(n, deps)
    /\ plan_status = "pending"
    /\ max_iterations \in 1..MaxIter
    /\ iteration = 0
    /\ consecutive_failures = 0
    /\ next_step = 0
    /\ pc = "planned"
    /\ exit_path = "none"
    /\ history_len = 0
    /\ attempts = ZeroCount(steps)
    /\ failures = ZeroCount(steps)
    /\ query = [fn |-> "none"]
    /\ EnvIdle

\* ---- Agent._chat_with_planning -------------------------------------------
\* plan.start() and the call of _execute_plan (iteration = 0).
StartPlan ==
    /\ pc = "planned"
    /\ plan_status' = "in_progress"
    /\ iteration' = 0
    /\ consecutive_failures' = 0
    /\ pc' = "loop"
    /\ UNCHANGED <<steps, max_iterations, next_step, exit_path, history_len,
                   attempts, failures, query>>
    /\ UNCHANGED envvars

\* ---- Agent._execute_plan -------------------------------------------------
\* The while condition fails: the max-iterations warning, no status change.
LoopExhausted ==
    /\ pc = "loop"
    /\ ~(iteration < max_iterations)
    /\ exit_path' = "max_iterations"
    /\ pc' = "returned"
    /\ UNCHANGED <<steps, plan_status, max_iterations, iteration,
                   consecutive_failures, next_step, history_len, attempts,
                   failures, query>>
    /\ UNCHANGED envvars

IterationHead_uncounted ==
    /\ pc = "loop"
    /\ iteration < max_iterations
    /\ iteration' = iteration
    /\ IF is_plan_complete(steps)
       THEN /\ plan_status' = "completed"
            /\ exit_path' = "completed"
            /\ pc' = "returned"
            /\ UNCHANGED <<steps, next_step, attempts>>
       ELSE IF is_plan_blocked(steps)
       THEN /\ plan_status' = "failed"
            /\ exit_path' = "blocked"
            /\ pc' = "returned"
            /\ UNCHANGED <<steps, next_step, attempts>>
       ELSE LET n == get_next_executable_step(steps) IN
            /\ next_step' = n
            /\ IF n = 0
               THEN /\ exit_path' = "no_step"
                    /\ pc' = "returned"
                    /\ UNCHANGED <<steps, attempts>>
               ELSE /\ steps' = [steps EXCEPT ![n] = start(steps[n])]
                    /\ attempts' = [attempts EXCEPT ![n] = Min(@ + 1, CountCap)]
                    /\ pc' = "executing"
                    /\ UNCHANGED exit_path
            /\ UNCHANGED plan_status
    /\ UNCHANGED <<max_iterations, consecutive_failures, history_len,
                   failures, query>>
    /\ UNCHANGED envvars

\* The head of one iteration, up to the tool call or to a return.
IterationHead ==
    /\ pc = "loop"
    /\ iteration < max_iterations
    /\ iteration' = iteration + 1
    /\ IF is_plan_complete(steps)
       THEN /\ plan_status' = "completed"
            /\ exit_path' = "completed"
            /\ pc' = "returned"
            /\ UNCHANGED <<steps, next_step, attempts>>
       ELSE IF is_plan_blocked(steps)
       THEN /\ plan_status' = "failed"
            /\ exit_path' = "blocked"
            /\ pc' = "returned"
            /\ UNCHANGED <<steps, next_step, attempts>>
       ELSE LET n == get_next_executable_step(steps) IN
            /\ next_step' = n
            /\ IF n = 0
               THEN /\ exit_path' = "no_step"
                    /\ pc' = "returned"
                    /\ UNCHANGED <<steps, attempts>>
               ELSE /\ steps' = [steps EXCEPT ![n] = start(steps[n])]
                    /\ attempts' = [attempts EXCEPT ![n] = Min(@ + 1, CountCap)]
                    /\ pc' = "executing"
                    /\ UNCHANGED exit_path
            /\ UNCHANGED plan_status
    /\ UNCHANGED <<max_iterations, consecutive_failures, history_len,
                   failures, query>>
    /\ UNCHANGED envvars

\* The tool returns; update_step_result and the failure tracking.
ToolReturns(ok) ==
    /\ pc = "executing"
    /\ steps' = [steps EXCEPT ![next_step] = update_step_result(steps[next_step], ok)]
    /\ failures' = IF ok THEN failures
                   ELSE [failures EXCEPT ![next_step] = Min(@ + 1, CountCap)]
    /\ consecutive_failures' =
          IF ~ok
          THEN (IF consecutive_failures + 1 >= PauseAfterFailures
                THEN 0 ELSE consecutive_failures + 1)
          ELSE 0
    /\ pc' = "loop"
    /\ UNCHANGED <<plan_status, max_iterations, iteration, next_step, exit_path,
                   history_len, attempts, query>>
    /\ UNCHANGED envvars

\* Back in _chat_with_planning: execution_history.append(plan).
SaveHistory ==
    /\ pc = "returned"
    /\ history_len' = history_len + 1
    /\ pc' = "turn_over"
    /\ UNCHANGED <<steps, plan_status, max_iterations, iteration,
                   consecutive_failures, next_step, exit_path, attempts,
                   failures, query>>
    /\ UNCHANGED envvars

Next ==
    \/ StartPlan
    \/ LoopExhausted
    \/ IterationHead
    \/ \E ok \in BOOLEAN : ToolReturns(ok)
    \/ SaveHistory

Spec == Init /\ [][Next]_vars

\* ---- planner queries on an arbitrary plan --------------------------------
\* current_plan is a public attribute: the queries are total functions of any
\* plan, whatever the statuses, retry counts and dependency values.
\* Dependency values range over 1..PlannerSteps, so that the shorter plans
\* carry out-of-range values; retry counts are fresh or exhausted.
DepValues == 1..PlannerSteps

RetryCounts == {0, DefaultMaxRetries}

PlannerStep ==
    {[PlanStep(1, deps) EXCEPT !.status = st, !.retry_count = rc] :
        deps \in SUBSET DepValues, st \in PlanStatus, rc \in RetryCounts}

PlannerInit ==
    /\ \E n \in 0..PlannerSteps :
          \E f \in [1..n -> PlannerStep] :
              steps = [i \in 1..n |-> [f[i] EXCEPT !.step_number = i]]
    /\ plan_status = "in_progress"
    /\ max_iterations = 1
    /\ iteration = 0
    /\ consecutive_failures = 0
    /\ next_step = 0
    /\ pc = "planner"
    /\ exit_path = "none"
    /\ history_len = 0
    /\ attempts = ZeroCount(steps)
    /\ failures = ZeroCount(steps)
    /\ query = [fn |-> "none"]
    /\ EnvIdle

Answer(fn, ret) ==
    /\ pc = "planner"
    /\ query' = [fn |-> fn, ret |-> ret]
    /\ UNCHANGED <<steps, plan_status, max_iterations, iteration,
                   consecutive_failures, next_step, pc, exit_path, history_len,
                   attempts, failures>>
    /\ UNCHANGED envvars

CallGetNext == Answer("get_next_executable_step", get_next_executable_step(steps))

CallIsPlanComplete == Answer("is_plan_complete", is_plan_complete(steps))

CallIsPlanBlocked == Answer("is_plan_blocked", is_plan_blocked(steps))

PlannerNext ==
    \/ CallGetNext
    \/ CallIsPlanComplete
    \/ CallIsPlanBlocked

PlannerSpec == PlannerInit /\ [][PlannerNext]_vars

StepIndex == 1..Len(steps)

\* ---- claims ----------------------------------------------------------------
InRange(d) == 1 <= d /\ d <= Len(steps)

\* C1: whenever a step is started (in_progress, its tool running), every
\* dependency of it within 1..step count is a completed step; first attempts
\* and re-attempts alike.
C1_DependenciesCompletedAtStart ==
    pc = "executing" =>
        /\ steps[next_step].status = "in_progress"
        /\ \A d \in steps[next_step].dependencies :
              InRange(d) => steps[d].status = "completed"

C1_Witness ==
    /\ pc = "executing"
    /\ attempts[next_step] >= 2
    /\ \E d \in steps[next_step].dependencies : d # next_step

\* C2: a step is executed at most max_retries + 1 times.
C2_AtMostMaxRetriesPlusOneExecutions ==
    \A i \in StepIndex : attempts[i] <= steps[i].max_retries + 1

\* C3: a step that fails on every attempt and has a pending dependent gets the
\* plan detected as blocked and marked failed, when max_iterations leaves
\* room for the retries and for the detecting iteration.
C3_BlockedPlanIsFailed ==
    (/\ pc = "returned"
     /\ max_iterations >= DefaultMaxRetries + 2
     /\ \E i, j \in StepIndex :
           /\ attempts[i] >= 1 /\ failures[i] = attempts[i]
           /\ \A k \in StepIndex \ {i} : attempts[k] = 0
           /\ steps[j].status = "pending" /\ i \in steps[j].dependencies)
    => (exit_path = "blocked" /\ plan_status = "failed")

\* C4: get_next_executable_step returns the first eligible step in declaration
\* order, or none; for the plan A(deps=[]), B(deps=[A]) it returns A while A is
\* pending, B (not itself a failed step up for retry) only once A is completed,
\* none once both are completed.
Eligible(i) ==
    /\ steps[i].status \notin {"completed", "in_progress"}
    /\ IF steps[i].status = "failed"
       THEN steps[i].retry_count < steps[i].max_retries
       ELSE \A d \in steps[i].dependencies :
               InRange(d) => steps[d].status = "completed"

C4_FirstEligibleStep ==
    LET r == get_next_executable_step(steps) IN
    /\ \/ r = 0 /\ \A i \in StepIndex : ~Eligible(i)
       \/ r \in StepIndex /\ Eligible(r) /\ \A j \in 1..(r - 1) : ~Eligible(j)
    /\ (Len(steps) = 2 /\ steps[1].dependencies = {} /\ steps[2].dependencies = {1})
       => /\ steps[1].status = "pending" => r = 1
          /\ (r = 2 /\ steps[2].status # "failed") => steps[1].status = "completed"
          /\ (steps[1].status = "completed" /\ steps[2].status = "completed") => r = 0

C4_Witness ==
    /\ query.fn = "get_next_executable_step"
    /\ query.ret = 2
    /\ Len(steps) = 2
    /\ steps[1].status = "failed"
    /\ steps[2].status = "retrying"
    /\ steps[2].dependencies = {3}

\* C5: after n <= max_retries recorded failures of a step its retry_count is n,
\* and after max_retries failures can_retry() is false.
C5_RetryCountCountsFailures ==
    \A i \in StepIndex :
        failures[i] <= steps[i].max_retries =>
            /\ steps[i].retry_count = failures[i]
            /\ (failures[i] = steps[i].max_retries => ~can_retry(steps[i]))

\* C6: every status change of a step follows pending -> in_progress,
\* in_progress -> completed, in_progress -> failed, failed -> retrying (with
\* retry_count < max_retries, incremented, error cleared), retrying -> in_progress.
StatusEdges ==
    {<<"pending", "in_progress">>, <<"in_progress", "completed">>,
     <<"in_progress", "failed">>, <<"failed", "retrying">>,
     <<"retrying", "in_progress">>}

C6_StatusEdgesOnly ==
    [][\A i \in StepIndex :
          steps'[i].status # steps[i].status =>
              /\ <<steps[i].status, steps'[i].status>> \in StatusEdges
              /\ steps'[i].status = "retrying" =>
                    /\ steps[i].retry_count < steps[i].max_retries
                    /\ steps'[i].retry_count = steps[i].retry_count + 1
                    /\ steps'[i].error = "none"]_vars

\* C7: is_plan_complete() is true iff every step is completed, and the plan
\* status is completed only where every step is completed.
C7_CompleteIffAllCompleted ==
    /\ is_plan_complete(steps) <=> (\A i \in StepIndex : steps[i].status = "completed")
    /\ plan_status = "completed" => \A i \in StepIndex : steps[i].status = "completed"

C7_Witness ==
    /\ plan_status = "completed"
    /\ Len(steps) >= 2
    /\ \E i \in StepIndex : failures[i] >= 1

\* C8: is_plan_blocked() is true iff (a) a failed step with retries exhausted
\* is a dependency of a pending or retrying step, or (b) some step is pending
\* or retrying and get_next_executable_step() returns none.
Waiting(i) == steps[i].status \in {"pending", "retrying"}

ExhaustedDependency ==
    \E i, j \in StepIndex :
        /\ steps[i].status = "failed"
        /\ steps[i].retry_count >= steps[i].max_retries
        /\ Waiting(j)
        /\ steps[i].step_number \in steps[j].dependencies

NothingExecutable ==
    /\ \E i \in StepIndex : Waiting(i)
    /\ get_next_executable_step(steps) = 0

C8_BlockedIffExhaustedOrStuck ==
    is_plan_blocked(steps) <=> (ExhaustedDependency \/ NothingExecutable)

C8_Witness ==
    /\ query.fn = "is_plan_blocked"
    /\ query.ret = TRUE
    /\ ExhaustedDependency
    /\ ~NothingExecutable

\* C9: when plan execution returns, the plan status is completed or failed.
C9_ReturnsCompletedOrFailed ==
    pc = "returned" => plan_status \in {"completed", "failed"}

\* C10: the max-iterations exit is taken only if some step is not completed.
C10_MaxIterationsOnlyIfIncomplete ==
    (pc = "returned" /\ exit_path = "max_iterations")
        => \E i \in StepIndex : steps[i].status # "completed"

\* C11: plan execution terminates, after at most max_iterations loop iterations
\* and at most max_iterations tool executions, whatever the dependency graph
\* and the tool outcomes.  The interpreter keeps running the turn: weak
\* fairness of the turn's steps.
FairSpec == Spec /\ WF_vars(Next)

RECURSIVE SumUpTo(_, _)
SumUpTo(f, n) == IF n = 0 THEN 0 ELSE f[n] + SumUpTo(f, n - 1)

Executions == SumUpTo(attempts, Len(attempts))

C11_TerminatesWithinMaxIterations ==
    /\ [](iteration <= max_iterations /\ Executions <= iteration)
    /\ <>(pc = "turn_over")

C11_Witness ==
    /\ pc = "turn_over"
    /\ exit_path = "max_iterations"
    /\ Executions = max_iterations
    /\ \E i \in StepIndex : i \in steps[i].dependencies

\* ---- DynamicPlanner.parse_plan_from_response --------------------------------
\* A response is lines of tokens: a fence with or without the json tag, the
\* JSON text, other text.  body is what the JSON text says.
Fence == "fence"            \* three backticks
JsonFence == "fence_json"   \* three backticks and the json tag
JsonText == "{json}"
OtherText == "text"

RECURSIVE strip(_)
strip(lines) ==
    IF lines = <<>> THEN lines
    ELSE IF Head(lines) = <<>> THEN strip(Tail(lines))
    ELSE IF lines[Len(lines)] = <<>> THEN strip(SubSeq(lines, 1, Len(lines) - 1))
    ELSE lines

startswith_fence(lines) ==
    /\ lines # <<>>
    /\ Head(lines)[1] \in {Fence, JsonFence}

NotFence(tok) == tok \notin {Fence, JsonFence}

replace_fences(lines) == [i \in 1..Len(lines) |-> SelectSeq(lines[i], NotFence)]

RECURSIVE join(_)
join(lines) == IF lines = <<>> THEN <<>> ELSE Head(lines) \o join(Tail(lines))

clean_response(text) ==
    LET stripped == strip(text)
    IN  IF startswith_fence(stripped)
        THEN replace_fences(SubSeq(stripped, 2, Len(stripped) - 1))
        ELSE stripped

json_loads_ok(response) ==
    /\ join(clean_response(response.text)) = <<JsonText>>
    /\ response.body.kind # "garbage"

validate_dependencies_exclusive(deps, n) ==
    LET valid(d) == 1 <= d /\ d < n
    IN  IF \E k \in 1..Len(deps) : deps[k] < 1 \/ deps[k] > n
        THEN SelectSeq(deps, valid)
        ELSE deps

validate_dependencies(deps, n) ==
    LET valid(d) == 1 <= d /\ d <= n
    IN  IF \E k \in 1..Len(deps) : deps[k] < 1 \/ deps[k] > n
        THEN SelectSeq(deps, valid)
        ELSE deps

NoPlan == [parsed |-> FALSE]

parse_plan_from_response(response) ==
    IF ~json_loads_ok(response) THEN NoPlan
    ELSE IF response.body.kind = "no_steps" THEN NoPlan
    ELSE IF response.body.kind = "bad_step" THEN NoPlan
    ELSE LET raw == response.body.steps
             n == Len(raw)
         IN  [parsed |-> TRUE,
              steps |-> [i \in 1..n |->
                           PlanStep(i, validate_dependencies(raw[i], n))]]

\* Texts the model answers with.
BareText == << <<JsonText>> >>
FencedTexts ==
    { << <<JsonFence>>, <<JsonText>>, <<Fence>> >>,
      << <<Fence>>, <<JsonText>>, <<Fence>> >>,
      << <<>>, <<JsonFence>>, <<JsonText>>, <<Fence>>, <<>> >> }
OtherTexts ==
    { << <<JsonFence>>, <<JsonText, Fence>> >>,
      << <<JsonFence>>, <<JsonText>> >>,
      << <<JsonFence, JsonText, Fence>> >>,
      << <<OtherText>>, <<JsonFence>>, <<JsonText>>, <<Fence>> >>,
      << <<JsonFence>>, <<JsonText>>, <<Fence>>, <<OtherText>> >>,
      << <<JsonText>>, <<OtherText>> >> }
ResponseTexts == {BareText} \cup FencedTexts \cup OtherTexts

\* Dependency lists a step declares: up to MaxDeps values of 0..n+1, in
\* ascending order (the validation looks at each value by itself).
RECURSIVE ascending(_)
ascending(S) ==
    IF S = {} THEN <<>>
    ELSE LET least == CHOOSE d \in S : \A e \in S : d <= e
         IN  <<least>> \o ascending(S \ {least})

DepLists(n) ==
    {ascending(S) : S \in {D \in SUBSET (0..(n + 1)) : Cardinality(D) <= MaxDeps}}

PlanIdle ==
    /\ steps = <<>>
    /\ plan_status = "pending"
    /\ max_iterations = 1
    /\ iteration = 0
    /\ consecutive_failures = 0
    /\ next_step = 0
    /\ exit_path = "none"
    /\ history_len = 0
    /\ attempts = <<>>
    /\ failures = <<>>

ParseInit ==
    /\ \E text \in ResponseTexts :
          \/ \E k \in {"garbage", "no_steps", "bad_step"} :
                input = [kind |-> "response", text |-> text, body |-> [kind |-> k]]
          \/ \E n \in 0..ParseSteps : \E raw \in [1..n -> DepLists(n)] :
                input = [kind |-> "response", text |-> text,
                         body |-> [kind |-> "steps", steps |-> raw]]
    /\ PlanIdle
    /\ pc = "parser"
    /\ query = [fn |-> "none"]
    /\ RegistryIdle

CallParsePlan ==
    /\ pc = "parser"
    /\ query.fn = "none"
    /\ query' = [fn |-> "parse_plan_from_response",
                 ret |-> parse_plan_from_response(input)]
    /\ UNCHANGED <<planvars, pc, envvars>>

ParseNext == CallParsePlan

ParseSpec == ParseInit /\ [][ParseNext]_vars

\* C12: on a decodable response, bare or wrapped in a code fence, whose steps
\* array has N well-formed steps, parse_plan_from_response returns a plan of
\* exactly N steps; no dependency outside 1..N is left, every dependency within
\* 1..N is kept, and an out-of-range dependency never makes parsing fail.
Occurrences(v, seq) == Cardinality({k \in 1..Len(seq) : seq[k] = v})

DecodableSteps ==
    /\ query.fn = "parse_plan_from_response"
    /\ input.text \in {BareText} \cup FencedTexts
    /\ input.body.kind = "steps"

C12_OutOfRangeDependenciesDropped ==
    DecodableSteps =>
        LET raw == input.body.steps
            N == Len(raw)
        IN  /\ query.ret.parsed
            /\ Len(query.ret.steps) = N
            /\ \A i \in 1..N :
                  LET kept == query.ret.steps[i].dependencies
                  IN  /\ \A k \in 1..Len(kept) : kept[k] \in 1..N
                      /\ \A v \in 1..N : Occurrences(v, kept) = Occurrences(v, raw[i])

C12_Witness ==
    /\ DecodableSteps
    /\ input.text \in FencedTexts
    /\ input.body.steps = << <<>>, <<2, 3>> >>
    /\ query.ret.steps[2].dependencies = <<2>>

\* ---- ToolRegistry -----------------------------------------------------------
conflicts(T) ==
    CASE T = "draw_overlay" -> {"keyboard_shortcut", "mouse_click", "type_text"}
      [] T = "keyboard_shortcut" -> {"draw_overlay"}
      [] T = "mouse_click" -> {"draw_overlay"}
      [] OTHER -> {}

Registry ==
    [last_call_time |-> last_call_time, call_count |-> call_count,
     last_tool |-> last_tool]

has_conflict_unaged(reg, T, t) ==
    IF reg.last_tool = "None" THEN FALSE
    ELSE reg.last_tool \in conflicts(T)

has_conflict(reg, T, t) ==
    IF reg.last_tool = "None" THEN FALSE
    ELSE /\ reg.last_tool \in conflicts(T)
         /\ t - reg.last_call_time[reg.last_tool] < ConflictWindowTicks

\* "none" is Python's None, "mapping" a dict, "other" any other value.
coerce_args_kept(args) == args

coerce_args(args) == IF args = "none" THEN "mapping" ELSE args

\* The moment run is entered: after the sleep that fills the cooldown.
run_start_unslept(reg, T, t) == t

run_start(reg, T, t) ==
    IF t - reg.last_call_time[T] < CooldownTicks
    THEN t + (CooldownTicks - (t - reg.last_call_time[T]))
    ELSE t

Failure(err) == [error |-> err, own |-> FALSE, success |-> FALSE]

\* What the tool's run returns: its own result, successful or not.
\* "found_false" is a result with found false and no error field.
OwnResult(outcome) ==
    [error |-> IF outcome = "failure" THEN "tool_error" ELSE "none",
     own |-> TRUE, success |-> (outcome = "success")]

Returned(reg, err, t) ==
    [reg |-> reg, ran |-> FALSE, run_at |-> 0, done_at |-> t, result |-> Failure(err)]

ToolRegistry_call_stamping_rejections(reg, T, args, outcome, t, dur) ==
    IF T \notin RegisteredTools THEN Returned(reg, "unknown_tool", t)
    ELSE IF coerce_args(args) # "mapping" THEN Returned(reg, "invalid_arguments", t)
    ELSE IF has_conflict(reg, T, t)
    THEN Returned([reg EXCEPT !.last_call_time[T] = t], "tool_conflict", t)
    ELSE LET at == run_start(reg, T, t)
             done == at + dur
         IN  IF outcome \in {"success", "failure", "found_false"}
             THEN [reg |-> [last_call_time |-> [reg.last_call_time EXCEPT ![T] = done],
                            call_count |-> [reg.call_count EXCEPT ![T] = @ + 1],
                            last_tool |-> T],
                   ran |-> TRUE, run_at |-> at, done_at |-> done,
                   result |-> OwnResult(outcome)]
             ELSE [reg |-> reg, ran |-> TRUE, run_at |-> at, done_at |-> done,
                   result |-> Failure(IF outcome = "TypeError"
                                      THEN "bad_tool_arguments"
                                      ELSE "tool_runtime_exception")]

\* call(tool_name, args) arriving at time t; run takes dur and ends in outcome.
ToolRegistry_call(reg, T, args, outcome, t, dur) ==
    IF T \notin RegisteredTools THEN Returned(reg, "unknown_tool", t)
    ELSE IF coerce_args(args) # "mapping" THEN Returned(reg, "invalid_arguments", t)
    ELSE IF has_conflict(reg, T, t) THEN Returned(reg, "tool_conflict", t)
    ELSE LET at == run_start(reg, T, t)
             done == at + dur
         IN  IF outcome \in {"success", "failure", "found_false"}
             THEN [reg |-> [last_call_time |-> [reg.last_call_time EXCEPT ![T] = done],
                            call_count |-> [reg.call_count EXCEPT ![T] = @ + 1],
                            last_tool |-> T],
                   ran |-> TRUE, run_at |-> at, done_at |-> done,
                   result |-> OwnResult(outcome)]
             ELSE [reg |-> reg, ran |-> TRUE, run_at |-> at, done_at |-> done,
                   result |-> Failure(IF outcome = "TypeError"
                                      THEN "bad_tool_arguments"
                                      ELSE "tool_runtime_exception")]

ToolNames == RegisteredTools \cup {"no_such_tool"}
ArgKinds == {"mapping", "none", "other"}
Outcomes == {"success", "failure", "TypeError", "Exception"}
Gaps == {1, ConflictWindowTicks}    \* time between two calls, in ticks
Durations == {0, 1}                 \* time a run takes, in ticks

\* The record of a call and of what the registry held when it arrived.
CallRecord(reg, T, args, outcome, t, r) ==
    [kind |-> "call", tool |-> T, args |-> args, arrived |-> t,
     ran |-> r.ran, run_at |-> r.run_at, done_at |-> r.done_at,
     outcome |-> IF r.ran THEN outcome ELSE "none",
     result |-> r.result,
     before_time |-> IF T \in RegisteredTools THEN reg.last_call_time[T] ELSE 0,
     before_count |-> IF T \in RegisteredTools THEN reg.call_count[T] ELSE 0,
     before_last_tool |-> reg.last_tool,
     inv_tool |-> IF call.ran THEN call.tool ELSE call.inv_tool,
     inv_at |-> IF call.ran THEN call.done_at ELSE call.inv_at,
     dispatched |-> FALSE, prev_end |-> 0]

RegistryInit ==
    /\ PlanIdle
    /\ pc = "registry"
    /\ query = [fn |-> "none"]
    /\ EnvIdle

Call(T, args, outcome, gap, dur) ==
    /\ pc = "registry"
    /\ ncalls < MaxCalls
    /\ LET t == now + gap
           r == ToolRegistry_call(Registry, T, args, outcome, t, dur)
       IN  /\ last_call_time' = r.reg.last_call_time
           /\ call_count' = r.reg.call_count
           /\ last_tool' = r.reg.last_tool
           /\ now' = r.done_at
           /\ call' = CallRecord(Registry, T, args, outcome, t, r)
    /\ ncalls' = ncalls + 1
    /\ UNCHANGED <<planvars, pc, query, input, last_tool_time, tool_call_count,
                   history, r_iteration, reactvars, subsysvars, run>>

RegistryNext ==
    \E T \in ToolNames, args \in ArgKinds, outcome \in Outcomes,
       gap \in Gaps, dur \in Durations : Call(T, args, outcome, gap, dur)

RegistrySpec == RegistryInit /\ [][RegistryNext]_vars

\* The call reached the checks that follow the argument check.
Dispatchable ==
    /\ call.kind = "call"
    /\ call.tool \in RegisteredTools
    /\ call.args # "other"

Rejected == call.result.error = "tool_conflict" /\ ~call.ran

\* C13: call(T, args) for a registered T with mapping arguments returns
\* tool_conflict without running T exactly when the most recently invoked tool
\* is in T's conflict list and was last invoked less than 2.0 s before.
C13_ConflictIffRecentConflictingTool ==
    Dispatchable =>
        (Rejected <=> (/\ call.inv_tool \in conflicts(call.tool)
                       /\ call.arrived - call.inv_at < ConflictWindowTicks))

\* C14: type_text is never rejected with tool_conflict, whereas draw_overlay
\* called less than 2.0 s after type_text, mouse_click or keyboard_shortcut is.
C14_AsymmetricConflicts ==
    /\ call.tool = "type_text" => call.result.error # "tool_conflict"
    /\ (/\ Dispatchable
        /\ call.tool = "draw_overlay"
        /\ call.inv_tool \in {"type_text", "mouse_click", "keyboard_shortcut"}
        /\ call.arrived - call.inv_at < ConflictWindowTicks) => Rejected

\* C15: of two calls to the same tool the second run does not begin until
\* 0.5 s after the last-call time the first call recorded; the second call is
\* delayed, not rejected, and returns the tool's own result.
SecondCallOfSameTool ==
    /\ Dispatchable
    /\ call.before_last_tool = call.tool
    /\ call.outcome \notin {"TypeError", "Exception"}

C15_CooldownDelaysSecondRun ==
    SecondCallOfSameTool =>
        /\ call.ran
        /\ call.run_at >= call.before_time + CooldownTicks
        /\ call.run_at >= call.arrived
        /\ call.result = OwnResult(call.outcome)

C15_Witness ==
    /\ SecondCallOfSameTool
    /\ call.arrived = call.before_time + 1
    /\ call.run_at = call.before_time + CooldownTicks
    /\ call_count[call.tool] = 2

\* C16: after every call that reaches T's run, whether run returns a success
\* result, a failure result or raises, T's last-call timestamp is that call's,
\* T's counter is one more and the most-recent-tool pointer is T.
C16_EveryRunIsRecorded ==
    (call.kind = "call" /\ call.ran) =>
        /\ last_call_time[call.tool] = call.done_at
        /\ call_count[call.tool] = call.before_count + 1
        /\ last_tool = call.tool

\* C17: call returns a failure and never raises: unknown_tool for an
\* unregistered name, invalid_arguments for a non-mapping argument set (None
\* is an empty mapping), bad_tool_arguments for a parameter mismatch raised by
\* run, tool_runtime_exception for any other exception; unknown tool is checked
\* before argument shape, before conflict, before cooldown.
WouldConflict ==
    /\ call.before_last_tool \in conflicts(call.tool)
    /\ call.arrived - last_call_time[call.before_last_tool] < ConflictWindowTicks

C17_StructuredFailuresInOrder ==
    call.kind = "call" =>
        /\ call.tool \notin RegisteredTools => call.result = Failure("unknown_tool")
        /\ (call.tool \in RegisteredTools /\ call.args = "other")
              => call.result = Failure("invalid_arguments")
        /\ (call.tool \in RegisteredTools /\ call.args = "none")
              => call.result.error # "invalid_arguments"
        /\ call.outcome = "TypeError" => call.result = Failure("bad_tool_arguments")
        /\ call.outcome = "Exception" => call.result = Failure("tool_runtime_exception")
        /\ call.result.error = "tool_conflict"
              => (~call.ran /\ call.done_at = call.arrived)
        /\ call.result.error \in {"unknown_tool", "invalid_arguments", "tool_conflict"}
              => /\ ~call.ran
                 /\ call.tool \in RegisteredTools
                       => call_count[call.tool] = call.before_count

C17_Witness ==
    /\ call.kind = "call"
    /\ call.tool = "draw_overlay"
    /\ call.args = "other"
    /\ WouldConflict
    /\ call.result = Failure("invalid_arguments")

\* ---- Tool.is_successful -----------------------------------------------------
\* A result maps each key to "absent", "falsy" (present, false in a test) or
\* "truthy" (present, true in a test).
ResultKeys == {"success", "found", "ok", "error"}
KeyStates == {"absent", "falsy", "truthy"}

DefaultSuccessKeys == <<"success", "found", "ok">>
DefaultFailureKeys == <<"error">>

\* success_keys and failure_keys a tool class declares.
SuccessKeyLists == {DefaultSuccessKeys, <<"success">>, <<"found">>, <<"ok">>, <<>>}
FailureKeyLists == {DefaultFailureKeys, <<>>}

RECURSIVE any_truthy(_, _)
any_truthy(keys, result) ==
    IF keys = <<>> THEN FALSE
    ELSE IF result[Head(keys)] = "truthy" THEN TRUE
    ELSE any_truthy(Tail(keys), result)

RECURSIVE any_present(_, _)
any_present(keys, result) ==
    IF keys = <<>> THEN FALSE
    ELSE IF result[Head(keys)] # "absent" THEN TRUE
    ELSE any_present(Tail(keys), result)

is_successful_failure_first(tool, result) ==
    IF any_present(tool.failure_keys, result) THEN FALSE
    ELSE IF any_truthy(tool.success_keys, result) THEN TRUE
    ELSE TRUE

is_successful_falsy_fails(tool, result) ==
    IF any_truthy(tool.success_keys, result) THEN TRUE
    ELSE IF any_present(tool.failure_keys, result) THEN FALSE
    ELSE IF any_present(tool.success_keys, result) THEN FALSE
    ELSE TRUE

is_successful(tool, result) ==
    IF any_truthy(tool.success_keys, result) THEN TRUE
    ELSE IF any_present(tool.failure_keys, result) THEN FALSE
    ELSE TRUE

SuccessInit ==
    /\ \E sk \in SuccessKeyLists, fk \in FailureKeyLists,
          result \in [ResultKeys -> KeyStates] :
          input = [kind |-> "result", result |-> result,
                   tool |-> [success_keys |-> sk, failure_keys |-> fk]]
    /\ PlanIdle
    /\ pc = "tool"
    /\ query = [fn |-> "none"]
    /\ RegistryIdle

CallIsSuccessful ==
    /\ pc = "tool"
    /\ query.fn = "none"
    /\ query' = [fn |-> "is_successful",
                 ret |-> is_successful(input.tool, input.result)]
    /\ UNCHANGED <<planvars, pc, envvars>>

SuccessNext == CallIsSuccessful

SuccessSpec == SuccessInit /\ [][SuccessNext]_vars

\* C18: is_successful(result) is true if some declared success key is present
\* with a truthy value; otherwise false if some declared failure key is
\* present; otherwise true.  A result with a truthy success key and an error
\* key is successful.
Declared(keys) == {keys[k] : k \in 1..Len(keys)}

TruthySuccessKey ==
    \E key \in Declared(input.tool.success_keys) : input.result[key] = "truthy"

FailureKeyPresent ==
    \E key \in Declared(input.tool.failure_keys) : input.result[key] # "absent"

C18_SuccessKeysFirst ==
    query.fn = "is_successful" =>
        query.ret = (TruthySuccessKey \/ ~FailureKeyPresent)

C18_Witness ==
    /\ query.fn = "is_successful"
    /\ TruthySuccessKey
    /\ FailureKeyPresent
    /\ query.ret = TRUE

\* ---- Agent._execute_tool_safe ------------------------------------------------
\* The moment the rate limit lets the wrapper go on.
rate_limited_unslept(t) == t

rate_limited(t) ==
    IF t - last_tool_time < RateLimitTicks
    THEN t + (RateLimitTicks - (t - last_tool_time))
    ELSE t

\* critical_delays, in ticks.
pre_delay(T) ==
    CASE T = "keyboard_shortcut" -> 8
      [] T = "mouse_click" -> 6
      [] T = "draw_overlay" -> 15
      [] T = "get_system_state" -> 4
      [] OTHER -> 2

PrevEnd == IF call.dispatched THEN call.done_at ELSE call.prev_end

WrapperInit ==
    /\ PlanIdle
    /\ pc = "wrapper"
    /\ query = [fn |-> "none"]
    /\ EnvIdle

\* _execute_tool_safe(tool_name, arguments), entered gap ticks after the last
\* call returned.
ExecuteToolSafe(T, args, outcome, gap, dur) ==
    /\ pc = "wrapper"
    /\ ncalls < MaxCalls
    /\ LET go == rate_limited(now + gap)
       IN  IF T \notin RegisteredTools
           THEN /\ now' = go
                /\ call' = [NoCall EXCEPT !.kind = "wrapper", !.tool = T,
                                          !.args = args, !.arrived = go,
                                          !.done_at = go,
                                          !.result = Failure("not_found"),
                                          !.before_last_tool = last_tool,
                                          !.inv_tool = IF call.ran THEN call.tool
                                                       ELSE call.inv_tool,
                                          !.inv_at = IF call.ran THEN call.done_at
                                                     ELSE call.inv_at,
                                          !.prev_end = PrevEnd]
                /\ UNCHANGED <<last_call_time, call_count, last_tool,
                               last_tool_time, tool_call_count>>
           ELSE LET t == go + pre_delay(T)
                    r == ToolRegistry_call(Registry, T, args, outcome, t, dur)
                IN  /\ last_call_time' = r.reg.last_call_time
                    /\ call_count' = r.reg.call_count
                    /\ last_tool' = r.reg.last_tool
                    /\ now' = r.done_at
                    /\ last_tool_time' = r.done_at
                    /\ tool_call_count' = tool_call_count + 1
                    /\ call' = [CallRecord(Registry, T, args, outcome, t, r)
                                  EXCEPT !.kind = "wrapper", !.dispatched = TRUE,
                                         !.prev_end = PrevEnd]
    /\ ncalls' = ncalls + 1
    /\ UNCHANGED <<planvars, pc, query, input, history, r_iteration, reactvars,
                   subsysvars, run>>

WrapperNext ==
    \E T \in ToolNames, args \in ArgKinds, outcome \in Outcomes,
       gap \in Gaps, dur \in Durations : ExecuteToolSafe(T, args, outcome, gap, dur)

WrapperSpec == WrapperInit /\ [][WrapperNext]_vars

\* C19: through the safety wrapper, the dispatch of a tool to the registry
\* begins at least 0.5 s after the recorded end of the previous tool call made
\* through the wrapper.
SecondDispatch ==
    /\ call.kind = "wrapper"
    /\ call.dispatched
    /\ call.prev_end > 0

C19_DispatchSpacedFromPreviousCall ==
    SecondDispatch => call.arrived >= call.prev_end + RateLimitTicks

C19_Witness ==
    /\ SecondDispatch
    /\ call.tool = "type_text"
    /\ call.arrived = call.prev_end + RateLimitTicks + pre_delay("type_text")

\* ---- Agent.chat in planning mode ---------------------------------------------
\* What _call_model gives _generate_plan: nothing, a message without content,
\* or a message whose content is a response text.
IsModelAnswer(answer) ==
    \/ answer \in {[kind |-> "no_response"], [kind |-> "empty_content"]}
    \/ \E text \in ResponseTexts :
          \/ \E k \in {"garbage", "no_steps", "bad_step"} :
                answer = [kind |-> "response", text |-> text, body |-> [kind |-> k]]
          \/ \E n \in 0..ParseSteps : \E raw \in [1..n -> DepLists(n)] :
                answer = [kind |-> "response", text |-> text,
                          body |-> [kind |-> "steps", steps |-> raw]]

generate_plan_empty_on_silence(answer) ==
    IF answer.kind \in {"no_response", "empty_content"}
    THEN [parsed |-> TRUE, steps |-> <<>>]
    ELSE parse_plan_from_response(answer)

generate_plan(answer) ==
    IF answer.kind \in {"no_response", "empty_content"} THEN NoPlan
    ELSE parse_plan_from_response(answer)

as_set(seq) == {seq[k] : k \in 1..Len(seq)}

ChatInit ==
    /\ IsModelAnswer(input)
    /\ steps = <<>>
    /\ plan_status = "pending"
    /\ max_iterations \in 1..ChatIter
    /\ iteration = 0
    /\ consecutive_failures = 0
    /\ next_step = 0
    /\ exit_path = "none"
    /\ history_len = 0
    /\ attempts = <<>>
    /\ failures = <<>>
    /\ pc = "chat"
    /\ query = [fn |-> "none"]
    /\ RegistryIdle

\* _chat_with_planning up to plan.start(): _generate_plan, then either the
\* entry of _chat_reactive or current_plan = plan.
ChatWithPlanning ==
    /\ pc = "chat"
    /\ LET plan == generate_plan(input)
       IN  IF ~plan.parsed
           THEN /\ history' = Append(history, "user")
                /\ r_iteration' = 0
                /\ pc' = "reactive"
                /\ tool_calls' = <<>>
                /\ UNCHANGED <<steps, attempts, failures, executed, returned>>
           ELSE /\ steps' = [i \in 1..Len(plan.steps) |->
                               [plan.steps[i] EXCEPT !.dependencies = as_set(@)]]
                /\ attempts' = [i \in 1..Len(plan.steps) |-> 0]
                /\ failures' = [i \in 1..Len(plan.steps) |-> 0]
                /\ pc' = "planned"
                /\ UNCHANGED <<history, r_iteration, reactvars>>
    /\ UNCHANGED <<plan_status, max_iterations, iteration, consecutive_failures,
                   next_step, exit_path, history_len, query, input,
                   last_call_time, call_count, last_tool, now, last_tool_time,
                   tool_call_count, call, ncalls, subsysvars, run>>

\* The head of one iteration of _chat_reactive: the model gives nothing or a
\* message without tool calls (break), or k tool calls, named by the iteration
\* and their place in the response.
ReactiveIteration(answer, k) ==
    /\ pc = "reactive"
    /\ r_iteration < max_iterations
    /\ r_iteration' = r_iteration + 1
    /\ IF answer \in {"no_response", "no_tool_calls"}
       THEN /\ pc' = "turn_over"
            /\ UNCHANGED <<tool_calls, returned>>
       ELSE /\ tool_calls' = [i \in 1..k |-> <<r_iteration + 1, i>>]
            /\ returned' = returned \o [i \in 1..k |-> <<r_iteration + 1, i>>]
            /\ pc' = "reactive_tools"
    /\ UNCHANGED <<planvars, query, input, last_call_time, call_count, last_tool,
                   now, last_tool_time, tool_call_count, call, ncalls, history,
                   executed, subsysvars, run>>

\* The provider the agent talks to: a reactive turn's input names it, the
\* constructor's default otherwise.
provider == IF input.kind = "reactive_turn" THEN input.provider ELSE "groq"

\* _add_tool_result_to_history: a user message holding a tool_result block
\* for anthropic, a message of role tool otherwise.
tool_result_record == IF provider = "anthropic" THEN "user_tool_result" ELSE "tool"

\* One pass of the for loop: _execute_tool_safe, _add_tool_result_to_history.
\* What the tool returns does not steer the loop.
ExecuteReactiveTool_first_only ==
    /\ pc = "reactive_tools"
    /\ executed' = Append(executed, Head(tool_calls))
    /\ history' = Append(history, tool_result_record)
    /\ tool_calls' = <<>>
    /\ pc' = "reactive"
    /\ UNCHANGED <<planvars, query, input, last_call_time, call_count, last_tool,
                   now, last_tool_time, tool_call_count, call, ncalls,
                   r_iteration, returned, subsysvars, run>>

ExecuteReactiveTool ==
    /\ pc = "reactive_tools"
    /\ executed' = Append(executed, Head(tool_calls))
    /\ history' = Append(history, tool_result_record)
    /\ tool_calls' = Tail(tool_calls)
    /\ pc' = IF Tail(tool_calls) = <<>> THEN "reactive" ELSE "reactive_tools"
    /\ UNCHANGED <<planvars, query, input, last_call_time, call_count, last_tool,
                   now, last_tool_time, tool_call_count, call, ncalls,
                   r_iteration, returned, subsysvars, run>>

\* The while condition of _chat_reactive fails.
ReactiveExhausted ==
    /\ pc = "reactive"
    /\ r_iteration >= max_iterations
    /\ pc' = "turn_over"
    /\ UNCHANGED <<planvars, query, envvars>>

ChatNext ==
    \/ ChatWithPlanning
    \/ \E answer \in {"no_response", "no_tool_calls", "tool_calls"},
          k \in 1..MaxToolCalls : ReactiveIteration(answer, k)
    \/ ExecuteReactiveTool
    \/ ReactiveExhausted
    \/ StartPlan
    \/ LoopExhausted
    \/ IterationHead
    \/ \E ok \in BOOLEAN : ToolReturns(ok)
    \/ SaveHistory

ChatSpec == ChatInit /\ [][ChatNext]_vars

\* C20: in planning mode, when the model gives no response, empty content,
\* undecodable JSON or JSON without a steps field, the turn is handled by
\* reactive mode: the user message is appended to the conversation history and
\* the reactive loop runs; no plan is started, executed or appended to the
\* execution history.
NoPlanAnswer ==
    \/ input.kind \in {"no_response", "empty_content"}
    \/ /\ input.kind = "response"
       /\ input.body.kind \in {"garbage", "no_steps"}

C20_FallsBackToReactive ==
    (NoPlanAnswer /\ pc # "chat") =>
        /\ pc \in {"reactive", "reactive_tools", "turn_over"}
        /\ Len(history) >= 1
        /\ history[1] = "user"
        /\ r_iteration <= max_iterations
        /\ pc = "turn_over" => r_iteration >= 1
        /\ steps = <<>>
        /\ plan_status = "pending"
        /\ iteration = 0
        /\ history_len = 0

C20_Witness ==
    /\ input.kind = "response"
    /\ input.body.kind = "no_steps"
    /\ input.text \in FencedTexts
    /\ pc = "turn_over"
    /\ history = <<"user", "tool">>

\* ---- Agent.chat in reactive mode ---------------------------------------------
\* The history the earlier turns left.
PriorHistories == {<<>>, <<"user", "tool">>, <<"user", "user_tool_result">>}

Providers == {"anthropic", "groq"}

ReactiveInit ==
    /\ \E prior \in PriorHistories, p \in Providers :
          /\ input = [kind |-> "reactive_turn", prior |-> prior, provider |-> p]
          /\ history = prior
    /\ steps = <<>>
    /\ plan_status = "pending"
    /\ max_iterations \in 1..ChatIter
    /\ iteration = 0
    /\ consecutive_failures = 0
    /\ next_step = 0
    /\ exit_path = "none"
    /\ history_len = 0
    /\ attempts = <<>>
    /\ failures = <<>>
    /\ pc = "chat"
    /\ query = [fn |-> "none"]
    /\ last_call_time = [t \in RegisteredTools |-> 0]
    /\ call_count = [t \in RegisteredTools |-> 0]
    /\ last_tool = "None"
    /\ now = ClockStart
    /\ last_tool_time = 0
    /\ tool_call_count = 0
    /\ call = NoCall
    /\ ncalls = 0
    /\ r_iteration = 0
    /\ tool_calls = <<>>
    /\ executed = <<>>
    /\ returned = <<>>
    /\ run = Idle
    /\ SubsysIdle

\* chat() with planning off: the entry of _chat_reactive.
ChatReactive ==
    /\ pc = "chat"
    /\ history' = Append(history, "user")
    /\ r_iteration' = 0
    /\ pc' = "reactive"
    /\ UNCHANGED <<planvars, query, input, last_call_time, call_count, last_tool,
                   now, last_tool_time, tool_call_count, call, ncalls, reactvars,
                   subsysvars, run>>

ReactiveNext ==
    \/ ChatReactive
    \/ \E answer \in {"no_response", "no_tool_calls", "tool_calls"},
          k \in 1..MaxToolCalls : ReactiveIteration(answer, k)
    \/ ExecuteReactiveTool
    \/ ReactiveExhausted

ReactiveSpec == ReactiveInit /\ [][ReactiveNext]_vars

\* C21: a reactive turn appends the user message to the history, invokes the
\* model at most max_iterations times and ends at the first response that is
\* absent or has no tool calls; otherwise every returned tool call is executed
\* exactly once, in the order returned, with exactly one result record appended
\* per call; the history is never shortened.
ReactiveTurnShape ==
    pc # "chat" =>
        /\ SubSeq(history, 1, Len(input.prior)) = input.prior
        /\ Len(history) = Len(input.prior) + 1 + Len(executed)
        /\ history[Len(input.prior) + 1] = "user"
        /\ \A n \in (Len(input.prior) + 2)..Len(history) :
              history[n] = IF input.provider = "anthropic"
                           THEN "user_tool_result" ELSE "tool"
        /\ r_iteration <= max_iterations
        /\ executed \o tool_calls = returned
        /\ \A m, n \in 1..Len(returned) : returned[m] = returned[n] => m = n
        /\ pc = "turn_over" => executed = returned

HistoryOnlyGrows ==
    /\ Len(history') >= Len(history)
    /\ SubSeq(history', 1, Len(history)) = history

EndsAtFirstSilentResponse ==
    (pc = "reactive" /\ r_iteration' = r_iteration + 1 /\ returned' = returned)
        => pc' = "turn_over"

C21_ReactiveTurn ==
    /\ []ReactiveTurnShape
    /\ [][HistoryOnlyGrows /\ EndsAtFirstSilentResponse]_vars

C21_Witness ==
    /\ pc = "turn_over"
    /\ input.prior # <<>>
    /\ input.provider = "anthropic"
    /\ r_iteration = max_iterations
    /\ Len(executed) = MaxToolCalls + 1

\* ---- OverlayManager ----------------------------------------------------------
SpawnCooldownTicks == 20    \* spawn_cooldown, 2.0 s
StartupTicks == 15          \* wait for startup, 1.5 s
SendSettleTicks == 1        \* time given to the child to read, 0.1 s
CloseSettleTicks == 5       \* sleep of close(), 0.5 s
TerminateWaitTicks == 20    \* process.wait(timeout=2)

Max(a, b) == IF a > b THEN a ELSE b

\* The manager as constructed, with what the operating system holds for it:
\* alive are the children running, tempfiles the command files on disk,
\* child_file the command file the last child was started on.  process and
\* temp_file are 0 for None.  peak is the most children ever alive at once;
\* wrote counts the commands written; last_op and last_ok tell the last
\* operation and whether its command was sent.
NewOverlayManager ==
    [kind |-> "manager", enabled |-> TRUE, process |-> 0, temp_file |-> 0,
     last_spawn_time |-> 0, time |-> ClockStart, alive |-> {}, spawned |-> 0,
     tempfiles |-> {}, tempcount |-> 0, child_file |-> 0, wrote |-> 0,
     peak |-> 0, ops |-> 0, last_op |-> "none", last_ok |-> FALSE]

\* Popen and the start-up of the child: the child runs, the child has exited
\* by the end of the start-up wait, or Popen raises.
SpawnOutcomes == {"started", "died", "popen_raises"}

\* terminate(): the child exits within the wait, or the wait times out.
TerminateOutcomes == {"exits", "hangs"}

ensure_process(m, spawn) ==
    IF ~m.enabled THEN [ok |-> FALSE, m |-> m]
    ELSE LET m1 == [m EXCEPT !.time =
                        IF @ - m.last_spawn_time < SpawnCooldownTicks
                        THEN m.last_spawn_time + SpawnCooldownTicks ELSE @]
         IN  IF m1.process # 0 /\ m1.process \in m1.alive
             THEN [ok |-> TRUE, m |-> m1]
             ELSE LET file == m1.tempcount + 1
                      m2 == [m1 EXCEPT !.temp_file = file, !.tempcount = file,
                                       !.tempfiles = @ \cup {file}]
                      child == m2.spawned + 1
                      m3 == [m2 EXCEPT
                               !.process = child, !.spawned = child,
                               !.child_file = file,
                               !.peak = Max(@, Cardinality(m2.alive \cup {child})),
                               !.last_spawn_time = m2.time,
                               !.time = m2.time + StartupTicks,
                               !.alive = IF spawn = "started"
                                         THEN @ \cup {child} ELSE @]
                  IN  IF spawn = "popen_raises" THEN [ok |-> FALSE, m |-> m2]
                      ELSE [ok |-> (spawn = "started"), m |-> m3]

send_command(m, spawn) ==
    LET r == ensure_process(m, spawn)
    IN  IF ~r.ok THEN r
        ELSE [ok |-> TRUE,
              m |-> [r.m EXCEPT !.wrote = @ + 1, !.time = @ + SendSettleTicks]]

close_unterminated(m, spawn, term) ==
    LET m1 == IF m.process # 0
              THEN [send_command(m, spawn).m EXCEPT !.process = 0]
              ELSE m
    IN  IF m1.temp_file # 0
        THEN [m1 EXCEPT !.tempfiles = @ \ {m1.temp_file}]
        ELSE m1

close(m, spawn, term) ==
    LET m1 == IF m.process # 0
              THEN LET sent == send_command(m, spawn).m
                       held == sent.process
                       waited == IF held \in sent.alive /\ term = "hangs"
                                 THEN TerminateWaitTicks ELSE 0
                   IN  [sent EXCEPT !.time = @ + CloseSettleTicks + waited,
                                    !.alive = @ \ {held},
                                    !.process = 0]
              ELSE m
    IN  IF m1.temp_file # 0
        THEN [m1 EXCEPT !.tempfiles = @ \ {m1.temp_file}]
        ELSE m1

disable_after_close(m, spawn, term) ==
    [close(m, spawn, term) EXCEPT !.enabled = FALSE]

disable(m, spawn, term) == close([m EXCEPT !.enabled = FALSE], spawn, term)

enable(m) == [m EXCEPT !.enabled = TRUE]

\* The operation is called gap ticks after the last one returned.
Called(m, gap, op) ==
    [m EXCEPT !.time = @ + gap, !.ops = @ + 1, !.last_op = op, !.last_ok = FALSE]

OverlayInit ==
    /\ AtRest("overlay")
    /\ overlay = NewOverlayManager
    /\ ipc = Idle
    /\ window = Idle
    /\ vision = Idle
    /\ session = Idle
    /\ mouse = Idle

OverlayFrame ==
    UNCHANGED <<planvars, pc, query, input, agentvars, ipc, window, vision,
                session, mouse>>

\* add_circle, add_rect, clear: _send_command and a line on the console.
Draw(op, gap, spawn) ==
    /\ overlay.ops < MaxOverlayOps
    /\ LET r == send_command(Called(overlay, gap, op), spawn)
       IN  overlay' = [r.m EXCEPT !.last_ok = r.ok]
    /\ OverlayFrame

Close(gap, spawn, term) ==
    /\ overlay.ops < MaxOverlayOps
    /\ overlay' = close(Called(overlay, gap, "close"), spawn, term)
    /\ OverlayFrame

Disable(gap, spawn, term) ==
    /\ overlay.ops < MaxOverlayOps
    /\ overlay' = disable(Called(overlay, gap, "disable"), spawn, term)
    /\ OverlayFrame

Enable(gap) ==
    /\ overlay.ops < MaxOverlayOps
    /\ overlay' = enable(Called(overlay, gap, "enable"))
    /\ OverlayFrame

\* A child exits by itself: a crash, a signal, the close command.
ChildExits ==
    /\ \E child \in overlay.alive : overlay' = [overlay EXCEPT !.alive = @ \ {child}]
    /\ OverlayFrame

OverlayNext ==
    \/ \E op \in {"add_circle", "add_rect", "clear"}, gap \in Gaps,
          spawn \in SpawnOutcomes : Draw(op, gap, spawn)
    \/ \E gap \in Gaps, spawn \in SpawnOutcomes, term \in TerminateOutcomes :
          Close(gap, spawn, term)
    \/ \E gap \in Gaps, spawn \in SpawnOutcomes, term \in TerminateOutcomes :
          Disable(gap, spawn, term)
    \/ \E gap \in Gaps : Enable(gap)
    \/ ChildExits

OverlaySpec == OverlayInit /\ [][OverlayNext]_vars

\* C22: after disable() and until enable(), no operation of the manager spawns
\* a child or writes a command or trigger file, and the manager holds no
\* child; after enable() the next drawing operation may spawn one again.
NothingWhileDisabled ==
    ~overlay'.enabled =>
        /\ overlay'.spawned = overlay.spawned
        /\ overlay'.tempcount = overlay.tempcount
        /\ overlay'.wrote = overlay.wrote
        /\ overlay'.process = 0

C22_DisabledOverlayDoesNothing ==
    /\ [](~overlay.enabled => (overlay.process = 0 /\ overlay.alive = {}))
    /\ [][NothingWhileDisabled]_vars

C22_Witness ==
    /\ ~overlay.enabled
    /\ overlay.last_op \in {"add_circle", "add_rect", "clear"}
    /\ ~overlay.last_ok
    /\ overlay.spawned >= 1

\* C23: at every moment at most one child is alive, it is the one the manager
\* holds and it polls the command file the manager writes; a child is spawned
\* only when the one held before is dead.
C23_AtMostOneLiveChild ==
    /\ Cardinality(overlay.alive) <= 1
    /\ overlay.peak <= 1
    /\ overlay.alive \subseteq {overlay.process}
    /\ overlay.alive # {} => overlay.child_file = overlay.temp_file

C23_Witness ==
    /\ overlay.spawned >= 2
    /\ overlay.alive = {overlay.process}
    /\ overlay.peak = 1

\* ---- the command file and its trigger ----------------------------------------
\* The manager's _send_command on one side, the child's check_commands on the
\* other.  command_file is 0 while the file is empty or half written and the
\* number of the command once it is written; mpc and cpc are the places of the
\* manager and of the child in their code; sent counts the commands whose
\* trigger was written, applied lists the commands the child dispatched.
NewIpc ==
    [kind |-> "ipc", command_file |-> 0, trigger |-> FALSE, mpc |-> "idle",
     sending |-> 0, sent |-> 0, cpc |-> "idle", cmd_data |-> 0,
     applied |-> <<>>]

IpcInit ==
    /\ AtRest("ipc")
    /\ overlay = Idle
    /\ ipc = NewIpc
    /\ window = Idle
    /\ vision = Idle
    /\ session = Idle
    /\ mouse = Idle

IpcFrame ==
    UNCHANGED <<planvars, pc, query, input, agentvars, overlay, window, vision,
                session, mouse>>

\* open(temp_file.name, 'w') truncates the command file.
ManagerOpens ==
    /\ ipc.mpc = "idle"
    /\ ipc.sent < MaxCommands
    /\ ipc' = [ipc EXCEPT !.mpc = "opened", !.sending = ipc.sent + 1,
                          !.command_file = 0]
    /\ IpcFrame

\* json.dump and the close of the file.
ManagerDumps ==
    /\ ipc.mpc = "opened"
    /\ ipc' = [ipc EXCEPT !.mpc = "written", !.command_file = ipc.sending]
    /\ IpcFrame

\* The trigger file is written, then a 0.1 s sleep, and the call returns.
ManagerTriggers ==
    /\ ipc.mpc = "written"
    /\ ipc' = [ipc EXCEPT !.mpc = "idle", !.trigger = TRUE, !.sent = ipc.sending]
    /\ IpcFrame

\* The timer fires and the trigger file exists (without it the poll returns).
ChildChecks ==
    /\ ipc.cpc = "idle"
    /\ ipc.trigger
    /\ ipc' = [ipc EXCEPT !.cpc = "checked"]
    /\ IpcFrame

\* json.load: a truncated file raises, the poll ends and the trigger stays.
ChildReads ==
    /\ ipc.cpc = "checked"
    /\ ipc' = IF ipc.command_file = 0
              THEN [ipc EXCEPT !.cpc = "idle"]
              ELSE [ipc EXCEPT !.cpc = "read", !.cmd_data = ipc.command_file]
    /\ IpcFrame

ChildUnlinks ==
    /\ ipc.cpc = "read"
    /\ ipc' = [ipc EXCEPT !.cpc = "unlinked", !.trigger = FALSE]
    /\ IpcFrame

ChildDispatches ==
    /\ ipc.cpc = "unlinked"
    /\ ipc' = [ipc EXCEPT !.cpc = "idle", !.applied = Append(@, ipc.cmd_data)]
    /\ IpcFrame

IpcNext ==
    \/ ManagerOpens
    \/ ManagerDumps
    \/ ManagerTriggers
    \/ ChildChecks
    \/ ChildReads
    \/ ChildUnlinks
    \/ ChildDispatches

IpcSpec == IpcInit /\ [][IpcNext]_vars

\* Nothing is in flight: the manager is between two sends, no trigger is
\* pending and the child is between two polls.
IpcQuiet == ipc.mpc = "idle" /\ ~ipc.trigger /\ ipc.cpc = "idle"

\* C24: every command the manager sent is applied by the child exactly once
\* and in the order sent, whatever the interleaving of the manager's writes
\* with the child's poll steps: the commands applied are always the first
\* commands sent, and all of them once nothing is in flight.
C24_EveryCommandAppliedOnceInOrder ==
    /\ \A i \in 1..Len(ipc.applied) : ipc.applied[i] = i
    /\ IpcQuiet => Len(ipc.applied) = ipc.sent

\* The three ways it fails: a command lost, a command applied twice, a command
\* applied in place of the one before it.
C24_Lost == IpcQuiet /\ ipc.sent = 2 /\ ipc.applied = <<1>>
C24_Twice == ipc.applied = <<2, 2>>
C24_Replaced == IpcQuiet /\ ipc.sent = 2 /\ ipc.applied = <<2>>

\* ---- OverlayWindow -----------------------------------------------------------
\* The window of one child: the panel offsets fixed at construction, the shape
\* list, and for the claims the inputs dispatched since the last clear (added),
\* the number of commands dispatched and whether the event loop still runs.
PanelOffsetsX == {0, 3}
PanelOffsetsY == {0, 7}
Coords == {0, 5}
CircleInputs == {<<x, y>> : x \in Coords, y \in Coords}
RectInputs == {<<x, y, x + 4, y + 6>> : x \in Coords, y \in Coords}

add_circle(w, x, y) ==
    [w EXCEPT !.shapes = Append(@, [tag |-> "circle",
                 coords |-> <<x - w.panel_offset_x, y - w.panel_offset_y>>])]

add_rect_one_offset(w, x1, y1, x2, y2) ==
    [w EXCEPT !.shapes = Append(@, [tag |-> "rect",
                 coords |-> <<x1 - w.panel_offset_x, y1 - w.panel_offset_x,
                              x2 - w.panel_offset_x, y2 - w.panel_offset_x>>])]

add_rect(w, x1, y1, x2, y2) ==
    [w EXCEPT !.shapes = Append(@, [tag |-> "rect",
                 coords |-> <<x1 - w.panel_offset_x, y1 - w.panel_offset_y,
                              x2 - w.panel_offset_x, y2 - w.panel_offset_y>>])]

clear_shapes(w) == [w EXCEPT !.shapes = <<>>]

WindowInit ==
    /\ AtRest("window")
    /\ overlay = Idle
    /\ ipc = Idle
    /\ \E ox \in PanelOffsetsX, oy \in PanelOffsetsY :
          window = [kind |-> "window", panel_offset_x |-> ox,
                    panel_offset_y |-> oy, shapes |-> <<>>, added |-> <<>>,
                    dispatched |-> 0, running |-> TRUE]
    /\ vision = Idle
    /\ session = Idle
    /\ mouse = Idle

WindowFrame ==
    UNCHANGED <<planvars, pc, query, input, agentvars, overlay, ipc, vision,
                session, mouse>>

Dispatched(w, command, data) ==
    [w EXCEPT !.dispatched = @ + 1,
              !.added = IF command = "clear" THEN <<>>
                        ELSE IF command \in {"add_circle", "add_rect"}
                        THEN Append(@, [command |-> command, data |-> data])
                        ELSE @]

CanDispatch == window.running /\ window.dispatched < MaxDispatches

DispatchAddCircle(data) ==
    /\ CanDispatch
    /\ window' = add_circle(Dispatched(window, "add_circle", data),
                            data[1], data[2])
    /\ WindowFrame

DispatchAddRect(data) ==
    /\ CanDispatch
    /\ window' = add_rect(Dispatched(window, "add_rect", data),
                          data[1], data[2], data[3], data[4])
    /\ WindowFrame

DispatchClear ==
    /\ CanDispatch
    /\ window' = clear_shapes(Dispatched(window, "clear", <<>>))
    /\ WindowFrame

\* close quits the event loop; any other command name is dropped.
DispatchOther(command) ==
    /\ CanDispatch
    /\ window' = [Dispatched(window, command, <<>>) EXCEPT
                     !.running = (command # "close")]
    /\ WindowFrame

WindowNext ==
    \/ \E data \in CircleInputs : DispatchAddCircle(data)
    \/ \E data \in RectInputs : DispatchAddRect(data)
    \/ DispatchClear
    \/ \E command \in {"close", "unknown"} : DispatchOther(command)

WindowSpec == WindowInit /\ [][WindowNext]_vars

\* The shape the claim expects for one input: the tag of the command, each
\* coordinate less the panel offset of its axis.
ExpectedShape(a) ==
    LET ox == window.panel_offset_x
        oy == window.panel_offset_y
    IN  IF a.command = "add_circle"
        THEN [tag |-> "circle", coords |-> <<a.data[1] - ox, a.data[2] - oy>>]
        ELSE [tag |-> "rect",
              coords |-> <<a.data[1] - ox, a.data[2] - oy,
                           a.data[3] - ox, a.data[4] - oy>>]

ShapesAreTheInputsSinceClear ==
    /\ Len(window.shapes) = Len(window.added)
    /\ \A i \in 1..Len(window.shapes) :
          window.shapes[i] = ExpectedShape(window.added[i])

ShapesAppendedOrEmptied ==
    window'.shapes # window.shapes =>
        \/ /\ window'.shapes = <<>>
           /\ window'.added = <<>>
        \/ /\ Len(window'.shapes) = Len(window.shapes) + 1
           /\ SubSeq(window'.shapes, 1, Len(window.shapes)) = window.shapes
           /\ Len(window'.added) = Len(window.added) + 1

\* C25: the shape list changes only by one tagged shape appended per
\* add_circle or add_rect, its coordinates the inputs less the panel offset of
\* their axis, and by being emptied by clear; at every moment it holds exactly
\* the shapes added since the last clear, in the order they were added.
C25_ShapesSinceLastClear ==
    /\ []ShapesAreTheInputsSinceClear
    /\ [][ShapesAppendedOrEmptied]_vars

C25_Witness ==
    /\ window.panel_offset_x = 3
    /\ window.panel_offset_y = 7
    /\ window.dispatched = 3
    /\ window.shapes = << [tag |-> "rect", coords |-> <<2, -7, 6, -1>>] >>

\* ---- the detection cache -----------------------------------------------------
CacheTtlTicks == 20         \* _cache_ttl, 2.0 s

\* An image is told by the best score (in hundredths) each template reaches on
\* it; NoImage is the None a failed capture yields.
Templates == {"logo", "button"}
NoImage == [t \in Templates |-> 0]
Images == {[logo |-> 80, button |-> 80], [logo |-> 80, button |-> 40],
           [logo |-> 40, button |-> 95]}
Thresholds == {75, 90}
DetectGaps == {19, 20}

\* The loop over TEMPLATES: a template is a hit when its best score is above 0
\* and reaches the threshold.
hits(screen_bgr, threshold) ==
    {<<t, screen_bgr[t]>> : t \in {u \in Templates :
                                     screen_bgr[u] > 0 /\ screen_bgr[u] >= threshold}}

NoCache == [set |-> FALSE, cached_time |-> 0, cached_result |-> {}]

\* v.time is the clock the call reads.
detect_all_templates_sliding(v, screen_bgr, threshold) ==
    IF screen_bgr = NoImage THEN [v EXCEPT !.returned = {}]
    ELSE IF v.cache.set /\ v.time - v.cache.cached_time < CacheTtlTicks
    THEN [v EXCEPT !.returned = v.cache.cached_result,
                   !.cache.cached_time = v.time]
    ELSE LET found == hits(screen_bgr, threshold)
         IN  [v EXCEPT !.returned = found,
                       !.cache = [set |-> TRUE, cached_time |-> v.time,
                                  cached_result |-> found]]

detect_all_templates(v, screen_bgr, threshold) ==
    IF screen_bgr = NoImage THEN [v EXCEPT !.returned = {}]
    ELSE IF v.cache.set /\ v.time - v.cache.cached_time < CacheTtlTicks
    THEN [v EXCEPT !.returned = v.cache.cached_result]
    ELSE LET found == hits(screen_bgr, threshold)
         IN  [v EXCEPT !.returned = found,
                       !.cache = [set |-> TRUE, cached_time |-> v.time,
                                  cached_result |-> found]]

VisionInit ==
    /\ AtRest("vision")
    /\ overlay = Idle
    /\ ipc = Idle
    /\ window = Idle
    /\ vision = [kind |-> "vision", time |-> ClockStart, cache |-> NoCache,
                 calls |-> 0, screen_bgr |-> NoImage, threshold |-> 75,
                 returned |-> {}]
    /\ session = Idle
    /\ mouse = Idle

DetectAll(screen_bgr, threshold, gap) ==
    /\ vision.calls < MaxDetects
    /\ vision' = detect_all_templates(
                    [vision EXCEPT !.time = @ + gap, !.calls = @ + 1,
                                   !.screen_bgr = screen_bgr,
                                   !.threshold = threshold],
                    screen_bgr, threshold)
    /\ UNCHANGED <<planvars, pc, query, input, agentvars, overlay, ipc, window,
                   session, mouse>>

VisionNext ==
    \E screen_bgr \in Images \cup {NoImage}, threshold \in Thresholds,
       gap \in DetectGaps : DetectAll(screen_bgr, threshold, gap)

VisionSpec == VisionInit /\ [][VisionNext]_vars

\* C26: a call given an image less than 2.0 s after the call that last
\* populated the cache returns the cached hit set and leaves the cache as it
\* is, whatever the image and the threshold; a call 2.0 s or more after it (or
\* with nothing cached) returns the hits of its own image and threshold and
\* makes them the cache entry, stamped with its own time.
CacheServesWithinTtl ==
    (vision'.calls = vision.calls + 1 /\ vision'.screen_bgr # NoImage) =>
        IF vision.cache.set
           /\ vision'.time - vision.cache.cached_time < CacheTtlTicks
        THEN /\ vision'.returned = vision.cache.cached_result
             /\ vision'.cache = vision.cache
        ELSE /\ vision'.returned = {<<t, vision'.screen_bgr[t]>> :
                    t \in {u \in Templates :
                             vision'.screen_bgr[u] >= vision'.threshold}}
             /\ vision'.cache = [set |-> TRUE, cached_time |-> vision'.time,
                                 cached_result |-> vision'.returned]

C26_CacheServesWithinTtl == [][CacheServesWithinTtl]_vars

\* The second call, 1.9 s after the one that populated the cache, is given
\* another image and another threshold and is answered with the first hits.
C26_Witness ==
    /\ vision.calls = 2
    /\ vision.time - vision.cache.cached_time = 19
    /\ vision.screen_bgr = [logo |-> 40, button |-> 95]
    /\ vision.threshold = 90
    /\ vision.returned = {<<"logo", 80>>, <<"button", 80>>}

\* ---- the interactive loop ----------------------------------------------------
\* One pass of the loop of main() per action.  at is "prompt" while the loop
\* runs and "exited" once the process has ended; goals are the lines given
\* to agent.chat; logged counts the errors the loop caught and printed;
\* overlay_closed tells that manager.close() ran on the way out; ended_by is
\* what ended the session.
NewSession ==
    [kind |-> "session", at |-> "prompt", passes |-> 0, goals |-> <<>>,
     logged |-> 0, planning_mode |-> TRUE, overlay_enabled |-> TRUE,
     overlay_closed |-> FALSE, ended_by |-> "none", user_input |-> "",
     raised |-> FALSE]

\* The lines typed, after strip().
Lines == {"", "quit", "EXIT", "Stats", "tools", "toggle planning",
          "disable overlay", "enable overlay", "open firefox", "quit firefox"}

lower_unchanged(line) == line

lower(line) ==
    CASE line = "EXIT" -> "exit"
      [] line = "Stats" -> "stats"
      [] OTHER -> line

SessionInit ==
    /\ AtRest("session")
    /\ overlay = Idle
    /\ ipc = Idle
    /\ window = Idle
    /\ vision = Idle
    /\ session = NewSession
    /\ mouse = Idle

SessionFrame ==
    UNCHANGED <<planvars, pc, query, input, agentvars, overlay, ipc, window,
                vision, mouse>>

Prompting == session.at = "prompt" /\ session.passes < MaxLines

Pass(s, line, raises) ==
    [s EXCEPT !.passes = @ + 1, !.user_input = line, !.raised = raises]

\* The code after the loop: manager.close() inside try/except, the last line,
\* main() returns.
Cleanup(s, cause) ==
    [s EXCEPT !.at = "exited", !.overlay_closed = TRUE, !.ended_by = cause]

\* except Exception: the error and the traceback are printed, the loop goes on.
Logged(s) == [s EXCEPT !.logged = @ + 1]

\* input() returns a line; raises tells whether what handles it raises.
\* Nothing can raise for a blank line or for quit and exit.
ReadLine(line, raises) ==
    /\ Prompting
    /\ LET s == Pass(session, line, raises)
           cmd == lower(line)
       IN  session' =
             IF line = "" THEN [s EXCEPT !.raised = FALSE]
             ELSE IF cmd \in {"quit", "exit"}
             THEN Cleanup([s EXCEPT !.raised = FALSE], "quit")
             ELSE IF cmd \in {"stats", "tools"}
             THEN IF raises THEN Logged(s) ELSE s
             ELSE IF cmd = "toggle planning"
             THEN [s EXCEPT !.planning_mode = ~@, !.raised = FALSE]
             ELSE IF cmd = "disable overlay"
             THEN IF raises THEN Logged(s)
                  ELSE [s EXCEPT !.overlay_enabled = FALSE]
             ELSE IF cmd = "enable overlay"
             THEN IF raises THEN Logged(s)
                  ELSE [s EXCEPT !.overlay_enabled = TRUE]
             ELSE LET chatted == [s EXCEPT !.goals = Append(@, line)]
                  IN  IF raises THEN Logged(chatted) ELSE chatted
    /\ SessionFrame

\* input() raises EOFError, an Exception: caught, printed, and the loop
\* calls input() again.
EndOfInput ==
    /\ Prompting
    /\ session' = Logged(Pass(session, "end_of_input", TRUE))
    /\ SessionFrame

\* SIGINT: signal_handler closes the overlay and calls sys.exit(0).
Interrupt ==
    /\ session.at = "prompt"
    /\ session' = Cleanup(session, "interrupt")
    /\ SessionFrame

SessionNext ==
    \/ \E line \in Lines, raises \in BOOLEAN : ReadLine(line, raises)
    \/ EndOfInput
    \/ Interrupt

SessionSpec == SessionInit /\ [][SessionNext]_vars

\* C27: an end-of-input condition at the prompt ends the session: the loop is
\* left, the overlay is closed and the process exits; the loop does not prompt
\* again after end of input.
EndOfInputEndsSession ==
    session'.user_input = "end_of_input" /\ session'.passes > session.passes
        => session'.at = "exited" /\ session'.overlay_closed

C27_EndOfInputEndsSession == [][EndOfInputEndsSession]_vars

\* The loop prompts again after end of input, as often as one looks.
C27_StillPrompting ==
    /\ session.user_input = "end_of_input"
    /\ session.at = "prompt"
    /\ session.passes = MaxLines
    /\ session.logged = MaxLines

BuiltIns == {"stats", "tools", "toggle planning", "disable overlay",
             "enable overlay"}

\* C28: an exception raised while one line is handled is caught and logged
\* and the loop prompts again; the session ends only on quit or exit (in any
\* letter case) or on an interrupt; and a line given to the agent as a goal is
\* never a built-in command, quit, exit or a blank line.
LoopSurvivesExceptions ==
    /\ (session'.passes > session.passes /\ session'.raised) =>
          /\ session'.logged = session.logged + 1
          /\ session'.at = "prompt"
    /\ session'.logged # session.logged => session'.raised
    /\ (session'.at = "exited" /\ session.at = "prompt") =>
          \/ session'.ended_by = "interrupt" /\ session'.passes = session.passes
          \/ /\ session'.ended_by = "quit"
             /\ session'.user_input \in {"quit", "exit", "QUIT", "EXIT", "Quit", "Exit"}
    /\ session'.goals # session.goals =>
          /\ session'.goals = Append(session.goals, session'.user_input)
          /\ session'.user_input \notin
                BuiltIns \cup {"Stats", "STATS", "Tools", "quit", "exit",
                               "EXIT", "QUIT", "", "end_of_input"}

C28_LoopSurvivesExceptions == [][LoopSurvivesExceptions]_vars

C28_Witness ==
    /\ session.at = "prompt"
    /\ session.passes = 3
    /\ session.goals = <<"quit firefox">>
    /\ session.logged = 2
    /\ session.user_input = "Stats"
    /\ session.raised

\* ---- mouse_click -------------------------------------------------------------
\* One call of MouseClick.run.  available is PYAUTOGUI_AVAILABLE; pyautogui
\* tells whether moveTo or click raises; moved and clicked are what the
\* pointer did; result is the dictionary returned.
MouseXs == -1..(ScreenWidth + 1)
MouseYs == -1..(ScreenHeight + 1)
Buttons == {"left", "middle", "double"}
ClickCounts == {0, 1, 3, 4}
PyautoguiOutcomes == {"ok", "move_raises", "click_raises"}

NoResult == [success |-> FALSE, error |-> "not_returned"]

MouseClick_run_exclusive(m) ==
    IF ~m.available
    THEN [m EXCEPT !.result = [success |-> FALSE, error |-> "pyautogui not installed"]]
    ELSE IF ~(0 <= m.x /\ m.x < ScreenWidth /\ 0 <= m.y /\ m.y < ScreenHeight)
    THEN [m EXCEPT !.result = [success |-> FALSE, error |-> "coordinates out of bounds"]]
    ELSE IF m.button \notin {"left", "right", "middle"}
    THEN [m EXCEPT !.result = [success |-> FALSE, error |-> "invalid button"]]
    ELSE IF m.clicks < 1 \/ m.clicks > 3
    THEN [m EXCEPT !.result = [success |-> FALSE, error |-> "clicks must be 1-3"]]
    ELSE IF m.pyautogui = "move_raises"
    THEN [m EXCEPT !.result = [success |-> FALSE, error |-> "raised"]]
    ELSE IF m.pyautogui = "click_raises"
    THEN [m EXCEPT !.moved = TRUE,
                   !.result = [success |-> FALSE, error |-> "raised"]]
    ELSE [m EXCEPT !.moved = TRUE, !.clicked = m.clicks,
                   !.result = [success |-> TRUE, error |-> "none"]]

MouseClick_run(m) ==
    IF ~m.available
    THEN [m EXCEPT !.result = [success |-> FALSE, error |-> "pyautogui not installed"]]
    ELSE IF ~(0 <= m.x /\ m.x <= ScreenWidth /\ 0 <= m.y /\ m.y <= ScreenHeight)
    THEN [m EXCEPT !.result = [success |-> FALSE, error |-> "coordinates out of bounds"]]
    ELSE IF m.button \notin {"left", "right", "middle"}
    THEN [m EXCEPT !.result = [success |-> FALSE, error |-> "invalid button"]]
    ELSE IF m.clicks < 1 \/ m.clicks > 3
    THEN [m EXCEPT !.result = [success |-> FALSE, error |-> "clicks must be 1-3"]]
    ELSE IF m.pyautogui = "move_raises"
    THEN [m EXCEPT !.result = [success |-> FALSE, error |-> "raised"]]
    ELSE IF m.pyautogui = "click_raises"
    THEN [m EXCEPT !.moved = TRUE,
                   !.result = [success |-> FALSE, error |-> "raised"]]
    ELSE [m EXCEPT !.moved = TRUE, !.clicked = m.clicks,
                   !.result = [success |-> TRUE, error |-> "none"]]

MouseInit ==
    /\ AtRest("mouse")
    /\ overlay = Idle
    /\ ipc = Idle
    /\ window = Idle
    /\ vision = Idle
    /\ session = Idle
    /\ \E x \in MouseXs, y \in MouseYs, button \in Buttons,
          clicks \in ClickCounts, available \in BOOLEAN,
          outcome \in PyautoguiOutcomes :
          mouse = [kind |-> "mouse", at |-> "called", x |-> x, y |-> y,
                   button |-> button, clicks |-> clicks,
                   available |-> available, pyautogui |-> outcome,
                   moved |-> FALSE, clicked |-> 0, result |-> NoResult]

MouseClick ==
    /\ mouse.at = "called"
    /\ mouse' = [MouseClick_run(mouse) EXCEPT !.at = "returned"]
    /\ UNCHANGED <<planvars, pc, query, input, agentvars, overlay, ipc, window,
                   vision, session>>

MouseNext == MouseClick

MouseSpec == MouseInit /\ [][MouseNext]_vars

OutOfBounds ==
    \/ mouse.x < 0
    \/ mouse.x > ScreenWidth
    \/ mouse.y < 0
    \/ mouse.y > ScreenHeight

\* C29: a mouse_click with x outside [0, screen_width] or y outside
\* [0, screen_height] returns success false, with the out-of-bounds error
\* when the screen size can be asked, and neither moves the pointer nor
\* clicks; coordinates on the boundary are not turned down as out of bounds.
C29_OutOfBoundsRejected ==
    mouse.at = "returned" =>
        /\ OutOfBounds =>
              /\ ~mouse.result.success
              /\ mouse.available =>
                    mouse.result.error = "coordinates out of bounds"
              /\ ~mouse.moved
              /\ mouse.clicked = 0
        /\ ~OutOfBounds => mouse.result.error # "coordinates out of bounds"

C29_Witness ==
    /\ mouse.at = "returned"
    /\ mouse.x = ScreenWidth + 1
    /\ mouse.y = ScreenHeight
    /\ mouse.available
    /\ mouse.button = "left"
    /\ mouse.clicks = 1
    /\ mouse.pyautogui = "ok"
    /\ mouse.result = [success |-> FALSE, error |-> "coordinates out of bounds"]

\* A click on the far corner of the boundary goes through.
C29_BoundaryAccepted ==
    /\ mouse.at = "returned"
    /\ mouse.x = ScreenWidth
    /\ mouse.y = ScreenHeight
    /\ mouse.moved
    /\ mouse.clicked = 1
    /\ mouse.result.success

\* ---- _calculate_similarity ---------------------------------------------------
\* Strings are sequences of characters; scores are counted in 600ths, so that
\* 1.0 is 600, 0.9 is 540, 0.85 is 510 and the Jaccard quotients are whole.
ScoreOne == 600
Chars == {"a", "A", "b", "_"}
Separators == {"_", "-", " "}
StopWords == {<<"t", "h", "e">>, <<"a">>, <<"a", "n">>, <<"o", "n">>,
              <<"i", "n">>, <<"a", "t">>, <<"t", "o">>, <<"f", "o", "r">>,
              <<"o", "f">>, <<"w", "i", "t", "h">>}

\* str.lower()
lower_char(c) ==
    CASE c = "A" -> "a"
      [] c = "G" -> "g"
      [] c = "N" -> "n"
      [] c = "P" -> "p"
      [] c = "B" -> "b"
      [] OTHER -> c

lowered(str) == [i \in DOMAIN str |-> lower_char(str[i])]

\* sub in str
contains(str, sub) ==
    \E i \in 1..(Len(str) + 1) :
        /\ i + Len(sub) - 1 <= Len(str)
        /\ SubSeq(str, i, i + Len(sub) - 1) = sub

\* set(str.replace("_", " ").replace("-", " ").split()): the maximal runs of
\* characters that are not separators.
RECURSIVE words_from(_, _)
words_from(str, word) ==
    IF str = <<>> THEN (IF word = <<>> THEN {} ELSE {word})
    ELSE IF Head(str) \in Separators
    THEN (IF word = <<>> THEN {} ELSE {word}) \cup words_from(Tail(str), <<>>)
    ELSE words_from(Tail(str), Append(word, Head(str)))

words(str) == words_from(str, <<>>) \ StopWords

calculate_similarity_uncapped(q, t) ==
    LET query_l == lowered(q)
        target == lowered(t)
        query_words == words(query_l)
        target_words == words(target)
        intersection == Cardinality(query_words \cap target_words)
        union == Cardinality(query_words \cup target_words)
    IN  IF query_l = target THEN ScoreOne
        ELSE IF contains(target, query_l) THEN 540
        ELSE IF contains(query_l, target) THEN 510
        ELSE IF query_words = {} \/ target_words = {} THEN 0
        ELSE LET jaccard == (ScoreOne * intersection) \div union
                 boosted == IF query_words \subseteq target_words
                            THEN (720 * intersection) \div union
                            ELSE jaccard
             IN  boosted

calculate_similarity(q, t) ==
    LET query_l == lowered(q)
        target == lowered(t)
        query_words == words(query_l)
        target_words == words(target)
        intersection == Cardinality(query_words \cap target_words)
        union == Cardinality(query_words \cup target_words)
    IN  IF query_l = target THEN ScoreOne
        ELSE IF contains(target, query_l) THEN 540
        ELSE IF contains(query_l, target) THEN 510
        ELSE IF query_words = {} \/ target_words = {} THEN 0
        ELSE LET jaccard == (ScoreOne * intersection) \div union
                 boosted == IF query_words \subseteq target_words
                            THEN (720 * intersection) \div union
                            ELSE jaccard
             IN  IF boosted < ScoreOne THEN boosted ELSE ScoreOne

RECURSIVE Strings(_)
Strings(n) ==
    IF n = 0 THEN {<<>>}
    ELSE LET shorter == Strings(n - 1)
         IN  shorter \cup {Append(str, c) : str \in shorter, c \in Chars}

ScorerInit ==
    /\ \E q \in Strings(MaxStrLen), t \in Strings(MaxStrLen) :
          input = [kind |-> "similarity", query |-> q, target |-> t]
    /\ PlanIdle
    /\ pc = "tool"
    /\ query = [fn |-> "none"]
    /\ RegistryIdle

CallCalculateSimilarity ==
    /\ pc = "tool"
    /\ query.fn = "none"
    /\ query' = [fn |-> "calculate_similarity",
                 ret |-> calculate_similarity(input.query, input.target)]
    /\ UNCHANGED <<planvars, pc, envvars>>

ScorerNext == CallCalculateSimilarity

ScorerSpec == ScorerInit /\ [][ScorerNext]_vars

\* The token sets of the claim: split on underscore, hyphen and space, stop
\* words removed, letter case dropped.
NoSharedToken ==
    words(lowered(input.query)) \cap words(lowered(input.target)) = {}

\* C30: the score is 0.0 whenever the token sets of query and target share no
\* member, and no score exceeds 1.0.
C30_ZeroWithoutSharedToken ==
    query.fn = "calculate_similarity" =>
        /\ NoSharedToken => query.ret = 0
        /\ query.ret <= ScoreOne

\* C30, amended: the score is 0.0 whenever the token sets share no member and
\* neither string, letter case dropped, is equal to or contained in the
\* other; no score exceeds 1.0.
C30_ZeroUnlessContained ==
    query.fn = "calculate_similarity" =>
        /\ query.ret <= ScoreOne
        /\ (/\ NoSharedToken
            /\ ~contains(lowered(input.target), lowered(input.query))
            /\ ~contains(lowered(input.query), lowered(input.target)))
              => query.ret = 0

\* "b_a" against "Ab": the token sets {b} and {ab} are disjoint, neither
\* string holds the other, the score is 0.0.
C30_Witness ==
    /\ query.fn = "calculate_similarity"
    /\ input.query = <<"b", "_", "a">>
    /\ input.target = <<"A", "b">>
    /\ query.ret = 0

\* score("b", "bb") is 0.9 although the token sets {b} and {bb} are disjoint.
C30_SubstringScores ==
    /\ query.fn = "calculate_similarity"
    /\ input.query = <<"b">>
    /\ input.target = <<"b", "b">>
    /\ query.ret = 540

\* ---- normalize_key -----------------------------------------------------------
\* File names are sequences of characters, built from a stem, a few parts and
\* an extension.
Stems == {<<"i", "c", "o", "n">>,
          <<"c", "l", "o", "s", "e", "_", "b", "u", "t", "t", "o", "n">>}
NameParts == {<<"_">>, <<"_", "3", "2">>, <<"_", "a", "l", "t">>,
              <<"_", "v", "a", "r">>, <<"_", "x">>}
Extensions == {<<".", "p", "n", "g">>, <<".", "P", "N", "G">>}
Suffixes == << <<"_", "3", "2">>, <<"_", "4", "8">>, <<"_", "6", "4">>,
               <<"_", "o", "r", "i", "g">>, <<"_", "v", "a", "r">>,
               <<"_", "a", "l", "t">> >>

\* The last index of character c in str, 0 when there is none.
rfind(str, c) ==
    LET at == {i \in DOMAIN str : str[i] = c}
    IN  IF at = {} THEN 0 ELSE CHOOSE i \in at : \A j \in at : j <= i

\* os.path.splitext(fname)[0]: up to the last dot, unless only dots go
\* before it.
splitext_root(fname) ==
    LET dot == rfind(fname, ".")
    IN  IF dot = 0 \/ (\A i \in 1..(dot - 1) : fname[i] = ".") THEN fname
        ELSE SubSeq(fname, 1, dot - 1)

endswith(str, suffix) ==
    /\ Len(str) >= Len(suffix)
    /\ SubSeq(str, Len(str) - Len(suffix) + 1, Len(str)) = suffix

\* key.rsplit("_", 1)[0]
rsplit_head(key) ==
    LET at == rfind(key, "_")
    IN  IF at = 0 THEN key ELSE SubSeq(key, 1, at - 1)

\* key.replace("__", "_"): from the left, pairs that do not overlap.
RECURSIVE replace_double_underscore(_)
replace_double_underscore(key) ==
    IF Len(key) < 2 THEN key
    ELSE IF key[1] = "_" /\ key[2] = "_"
    THEN <<"_">> \o replace_double_underscore(SubSeq(key, 3, Len(key)))
    ELSE <<key[1]>> \o replace_double_underscore(Tail(key))

\* The for loop over the suffixes, from suffix number i on: every suffix the
\* key ends with when its turn comes is cut off.
RECURSIVE strip_suffixes(_, _)
strip_suffixes(key, i) ==
    IF i > Len(Suffixes) THEN key
    ELSE strip_suffixes(IF endswith(key, Suffixes[i]) THEN rsplit_head(key)
                        ELSE key, i + 1)

normalize_key(fname) ==
    replace_double_underscore(strip_suffixes(lowered(splitext_root(fname)), 1))

RECURSIVE NamesFrom(_, _)
NamesFrom(names, n) ==
    IF n = 0 THEN names
    ELSE names \cup NamesFrom({name \o part : name \in names, part \in NameParts},
                              n - 1)

KeyInit ==
    /\ \E name \in NamesFrom(Stems, MaxNameParts), ext \in Extensions :
          input = [kind |-> "filename", fname |-> name \o ext]
    /\ PlanIdle
    /\ pc = "tool"
    /\ query = [fn |-> "none"]
    /\ RegistryIdle

CallNormalizeKey ==
    /\ pc = "tool"
    /\ query.fn = "none"
    /\ query' = [fn |-> "normalize_key", ret |-> normalize_key(input.fname)]
    /\ UNCHANGED <<planvars, pc, envvars>>

KeyNext == CallNormalizeKey

KeySpec == KeyInit /\ [][KeyNext]_vars

\* The key as the claim words it: the extension dropped, lower case, double
\* underscores collapsed and one trailing variant suffix cut off.
DescribedKey(fname) ==
    LET key == replace_double_underscore(lowered(splitext_root(fname)))
    IN  IF \E i \in DOMAIN Suffixes : endswith(key, Suffixes[i])
        THEN rsplit_head(key) ELSE key

\* C31: normalize_key drops the extension, lower-cases, strips one trailing
\* variant suffix and collapses double underscores: "close_button_32.png"
\* gives "close_button" and "icon__alt.png" gives "icon".
C31_NormalizedKey ==
    query.fn = "normalize_key" =>
        /\ query.ret = DescribedKey(input.fname)
        /\ input.fname = <<"c", "l", "o", "s", "e", "_", "b", "u", "t", "t",
                           "o", "n", "_", "3", "2", ".", "p", "n", "g">>
              => query.ret = <<"c", "l", "o", "s", "e", "_", "b", "u", "t",
                               "t", "o", "n">>
        /\ input.fname = <<"i", "c", "o", "n", "_", "_", "a", "l", "t", ".",
                           "p", "n", "g">>
              => query.ret = <<"i", "c", "o", "n">>

\* normalize_key("icon__alt.png") is "icon_".
C31_IconAlt ==
    /\ query.fn = "normalize_key"
    /\ input.fname = <<"i", "c", "o", "n", "_", "_", "a", "l", "t", ".", "p",
                       "n", "g">>
    /\ query.ret = <<"i", "c", "o", "n", "_">>

\* normalize_key("icon_var_32.png") is "icon": two suffixes are cut off.
C31_TwoSuffixes ==
    /\ query.fn = "normalize_key"
    /\ input.fname = <<"i", "c", "o", "n", "_", "v", "a", "r", "_", "3", "2",
                       ".", "p", "n", "g">>
    /\ query.ret = <<"i", "c", "o", "n">>

\* ---- provider selection ------------------------------------------------------
\* The environment at start-up: MODEL_PROVIDER is "unset" or the string it
\* holds; each other variable is set or not.
ProviderValues == {"unset", "ollama", "lmstudio", "groq", "openai",
                   "anthropic", "openrouter", "Groq", "gemini", ""}
KnownProviders == {"ollama", "lmstudio", "groq", "openai", "anthropic",
                   "openrouter"}

\* os.environ.get(name, default)
environ_get(set, name, default) == IF set THEN "env:" \o name ELSE default

PROVIDER_CONFIGS(env) ==
    [ollama |->
        [model |-> environ_get(env.OLLAMA_MODEL, "OLLAMA_MODEL",
                               "qwen2.5:3b-instruct"),
         api_url |-> environ_get(env.OLLAMA_API_URL, "OLLAMA_API_URL",
                                 "http://localhost:11434/v1/chat/completions"),
         api_key |-> "None"],
     lmstudio |->
        [model |-> "local-model",
         api_url |-> "http://localhost:1234/v1/chat/completions",
         api_key |-> "None"],
     groq |->
        [model |-> environ_get(env.GROQ_MODEL, "GROQ_MODEL",
                               "llama-3.3-70b-versatile"),
         api_url |-> "https://api.groq.com/openai/v1/chat/completions",
         api_key |-> environ_get(env.GROQ_API_KEY, "GROQ_API_KEY", "None")],
     openai |->
        [model |-> "gpt-4-turbo-preview",
         api_url |-> "https://api.openai.com/v1/chat/completions",
         api_key |-> ""],
     anthropic |->
        [model |-> "claude-3-5-sonnet-20241022",
         api_url |-> "https://api.anthropic.com/v1/messages",
         api_key |-> ""],
     openrouter |->
        [model |-> "anthropic/claude-3.5-sonnet",
         api_url |-> "https://openrouter.ai/api/v1/chat/completions",
         api_key |-> ""]]

\* MODEL_PROVIDER, MODEL, API_URL and API_KEY as the module leaves them.
resolve_provider(env) ==
    LET read == IF env.MODEL_PROVIDER = "unset" THEN "ollama"
                ELSE env.MODEL_PROVIDER
        MODEL_PROVIDER == IF read \notin KnownProviders THEN "groq" ELSE read
        current_config == PROVIDER_CONFIGS(env)[MODEL_PROVIDER]
    IN  [provider |-> MODEL_PROVIDER, model |-> current_config.model,
         api_url |-> current_config.api_url, api_key |-> current_config.api_key]

ConfigInit ==
    /\ \E p \in ProviderValues, om \in BOOLEAN, ou \in BOOLEAN,
          gm \in BOOLEAN, gk \in BOOLEAN :
          input = [kind |-> "environ", MODEL_PROVIDER |-> p,
                   OLLAMA_MODEL |-> om, OLLAMA_API_URL |-> ou,
                   GROQ_MODEL |-> gm, GROQ_API_KEY |-> gk]
    /\ PlanIdle
    /\ pc = "tool"
    /\ query = [fn |-> "none"]
    /\ RegistryIdle

LoadConfig ==
    /\ pc = "tool"
    /\ query.fn = "none"
    /\ query' = [fn |-> "config", ret |-> resolve_provider(input)]
    /\ UNCHANGED <<planvars, pc, envvars>>

ConfigNext == LoadConfig

ConfigSpec == ConfigInit /\ [][ConfigNext]_vars

\* What start-up resolves to in the same environment with MODEL_PROVIDER
\* unset.
ResolvedWhenUnset == resolve_provider([input EXCEPT !.MODEL_PROVIDER = "unset"])

\* C32: with MODEL_PROVIDER set to a string that is none of the six known
\* providers, the resolved provider, model, API URL and API key are those
\* resolved when the variable is unset.
C32_UnknownProviderIsTheDefault ==
    (query.fn = "config"
     /\ input.MODEL_PROVIDER \notin KnownProviders \cup {"unset"})
        => query.ret = ResolvedWhenUnset

\* MODEL_PROVIDER=gemini resolves to groq; unset resolves to ollama.
C32_FallbackIsGroq ==
    /\ query.fn = "config"
    /\ input.MODEL_PROVIDER = "gemini"
    /\ query.ret.provider = "groq"
    /\ ResolvedWhenUnset.provider = "ollama"

\* ---- Agent._execute_plan with the tools it runs --------------------------------
MinStepDelayTicks == 10         \* Agent.min_step_delay, 1.0 s
FailurePauseTicks == 50         \* the pause after 3 failures in a row, 5 s

\* execution_delay of the tool classes, in ticks.
execution_delay(T) ==
    CASE T = "keyboard_shortcut" -> 8
      [] T = "mouse_click" -> 3
      [] T = "type_text" -> 2
      [] OTHER -> 0

\* success_keys and failure_keys of the tool classes.
ToolClass(T) ==
    [success_keys |-> CASE T = "draw_overlay" -> <<"ok">>
                        [] T = "find_file" -> <<"found">>
                        [] OTHER -> <<"success">>,
     failure_keys |-> DefaultFailureKeys]

\* The keys of a result: a tool's own result carries the key its class declares,
\* a failure built by the registry or by the wrapper carries success and error.
result_keys(T, res) ==
    [key \in ResultKeys |->
        IF key = "error"
        THEN (IF res.error = "none" THEN "absent" ELSE "truthy")
        ELSE IF res.own
        THEN (IF key = Head(ToolClass(T).success_keys)
              THEN (IF res.success THEN "truthy" ELSE "falsy")
              ELSE "absent")
        ELSE IF key = "success" THEN "falsy" ELSE "absent"]

\* What the tool's run and the wrapper's own statements do in one call:
\* "raise_before_call" and "raise_after_call" are an exception raised inside
\* the wrapper's try block, before and after self.tools.call.
RunOutcomes ==
    {"success", "failure", "found_false", "raise_before_call", "raise_after_call"}

\* _execute_tool_safe(tool_name, arguments) entered at time t: the result it
\* returns and the records it leaves.
execute_tool_safe_unchecked(reg, T, args, outcome, t, dur) ==
    LET go == rate_limited(t)
        at == go + pre_delay(T)
        rr == ToolRegistry_call(reg, T, args, outcome, at, dur)
    IN  [dispatched |-> TRUE, raised |-> outcome = "raise_after_call",
         arrived |-> at, rr |-> rr,
         result |-> rr.result, done_at |-> rr.done_at,
         last_tool_time |-> rr.done_at, tool_call_count |-> tool_call_count + 1]

execute_tool_safe(reg, T, args, outcome, t, dur) ==
    LET go == rate_limited(t)
        at == go + pre_delay(T)
        rr == ToolRegistry_call(reg, T, args,
                                IF outcome = "raise_after_call" THEN "success"
                                ELSE outcome, at, dur)
    IN  IF T \notin RegisteredTools
        THEN [dispatched |-> FALSE, raised |-> FALSE, arrived |-> go,
              rr |-> Returned(reg, "not_found", go),
              result |-> Failure("not_found"), done_at |-> go,
              last_tool_time |-> last_tool_time,
              tool_call_count |-> tool_call_count]
        ELSE IF outcome = "raise_before_call"
        THEN [dispatched |-> FALSE, raised |-> TRUE, arrived |-> at,
              rr |-> Returned(reg, "wrapper_exception", at),
              result |-> Failure("wrapper_exception"), done_at |-> at,
              last_tool_time |-> last_tool_time,
              tool_call_count |-> tool_call_count]
        ELSE [dispatched |-> TRUE, raised |-> outcome = "raise_after_call",
              arrived |-> at, rr |-> rr,
              result |-> IF outcome = "raise_after_call"
                         THEN Failure("wrapper_exception") ELSE rr.result,
              done_at |-> rr.done_at,
              last_tool_time |-> rr.done_at,
              tool_call_count |-> tool_call_count + 1]

\* The failure tracking of one iteration: the new counter and the pause taken.
failure_tracking_unreset(count, failed) ==
    IF failed
    THEN [count |-> count + 1,
          pause |-> IF count + 1 >= PauseAfterFailures THEN FailurePauseTicks ELSE 0]
    ELSE [count |-> 0, pause |-> 0]

failure_tracking(count, failed) ==
    IF failed
    THEN (IF count + 1 >= PauseAfterFailures
          THEN [count |-> 0, pause |-> FailurePauseTicks]
          ELSE [count |-> count + 1, pause |-> 0])
    ELSE [count |-> 0, pause |-> 0]

\* The sleeps that end an iteration: the step delay unless the loop is at its
\* last iteration, then the execution delay of the tool, if it is registered.
end_of_iteration_sleep(T) ==
    (IF iteration < max_iterations THEN MinStepDelayTicks ELSE 0)
    + (IF T \in RegisteredTools THEN execution_delay(T) ELSE 0)

RunTools ==
    {"draw_overlay", "mouse_click", "keyboard_shortcut", "find_file", "no_such_tool"}

\* Step i of a chain depends on step i - 1.
RunDeps(n) == {[i \in 1..n |-> {}], [i \in 1..n |-> {i - 1}]}

\* No iteration run yet.  step is the step the last iteration executed,
\* streak the failed outcomes in a row up to it, pause the pause it took;
\* prev_step and prev_error are the step of the iteration before it and the
\* error of the result that iteration got.
NoRun ==
    [kind |-> "plan", step |-> 0, streak |-> 0, pause |-> 0,
     prev_step |-> 0, prev_error |-> "none"]

RunInit ==
    /\ \E n \in 1..RunSteps :
          /\ \E deps \in RunDeps(n) : steps = ParsedPlan(n, deps)
          /\ \E tools \in [1..n -> RunTools] :
                input = [kind |-> "plan_tools", tools |-> tools]
    /\ plan_status = "pending"
    /\ max_iterations \in 1..RunIter
    /\ iteration = 0
    /\ consecutive_failures = 0
    /\ next_step = 0
    /\ pc = "planned"
    /\ exit_path = "none"
    /\ history_len = 0
    /\ attempts = ZeroCount(steps)
    /\ failures = ZeroCount(steps)
    /\ query = [fn |-> "none"]
    /\ last_call_time = [t \in RegisteredTools |-> 0]
    /\ call_count = [t \in RegisteredTools |-> 0]
    /\ last_tool = "None"
    /\ now = ClockStart
    /\ last_tool_time = 0
    /\ tool_call_count = 0
    /\ call = NoCall
    /\ ncalls = 0
    /\ history = <<>>
    /\ r_iteration = 0
    /\ tool_calls = <<>>
    /\ executed = <<>>
    /\ returned = <<>>
    /\ run = NoRun
    /\ SubsysIdle

\* One iteration from the tool call on: _execute_tool_safe, update_step_result,
\* the failure tracking and the sleeps that end the iteration.
ExecuteStep(outcome) ==
    /\ pc = "executing"
    /\ run.kind = "plan"
    /\ LET T == input.tools[next_step]
           w == execute_tool_safe(Registry, T, "mapping", outcome, now, 0)
           ok == /\ T \in RegisteredTools
                 /\ is_successful(ToolClass(T), result_keys(T, w.result))
           s == update_step_result(steps[next_step], ok)
           failed == s.status = "failed"
           tracked == failure_tracking(consecutive_failures, failed)
           slept == tracked.pause + end_of_iteration_sleep(T)
       IN  /\ steps' = [steps EXCEPT ![next_step] = s]
           /\ failures' = IF failed
                          THEN [failures EXCEPT ![next_step] = Min(@ + 1, CountCap)]
                          ELSE failures
           /\ consecutive_failures' = tracked.count
           /\ last_call_time' = w.rr.reg.last_call_time
           /\ call_count' = w.rr.reg.call_count
           /\ last_tool' = w.rr.reg.last_tool
           /\ last_tool_time' = w.last_tool_time
           /\ tool_call_count' = w.tool_call_count
           /\ now' = w.done_at + slept
           /\ call' = [CallRecord(Registry, T, "mapping", outcome, w.arrived, w.rr)
                         EXCEPT !.kind = "wrapper", !.result = w.result,
                                !.ran = w.dispatched /\ w.rr.ran,
                                !.outcome = IF w.raised THEN outcome ELSE @,
                                !.dispatched = w.dispatched,
                                !.prev_end = PrevEnd]
           /\ run' = [kind |-> "plan", step |-> next_step,
                      streak |-> IF failed THEN run.streak + 1 ELSE 0,
                      pause |-> tracked.pause,
                      prev_step |-> run.step,
                      prev_error |-> call.result.error]
    /\ pc' = "loop"
    /\ UNCHANGED <<plan_status, max_iterations, iteration, next_step, exit_path,
                   history_len, attempts, query, input, ncalls, history,
                   r_iteration, reactvars, subsysvars>>

RunNext ==
    \/ StartPlan
    \/ LoopExhausted
    \/ IterationHead
    \/ \E outcome \in RunOutcomes : ExecuteStep(outcome)
    \/ SaveHistory

RunSpec == RunInit /\ [][RunNext]_vars

\* C33: in plan execution the consecutive-failure counter goes up by one on
\* each failed step outcome and back to 0 on any other; on reaching 3 the
\* executor pauses 5 s and sets it back to 0.  At the start of every loop
\* iteration the counter is therefore between 0 and 2, and the iteration just
\* ended paused 5 s exactly when its failure was the third of three in a row.
ThirdInARow == run.streak > 0 /\ run.streak % PauseAfterFailures = 0

C33_FailureCounterAndPause ==
    (pc = "loop" /\ run.kind = "plan") =>
        /\ consecutive_failures \in 0..(PauseAfterFailures - 1)
        /\ consecutive_failures = run.streak % PauseAfterFailures
        /\ run.pause = IF ThirdInARow THEN FailurePauseTicks ELSE 0

C33_Witness ==
    /\ pc = "loop"
    /\ run.kind = "plan"
    /\ run.streak = PauseAfterFailures
    /\ run.pause = FailurePauseTicks
    /\ consecutive_failures = 0

\* C34: the tool safety wrapper never raises.  For a tool name absent from the
\* registry it returns a 'not found' failure without invoking the registry and
\* without changing the recorded last-tool-call time; an exception inside the
\* wrapper is returned as a result with success false and an error; in planning
\* mode either result marks the step failed.
WrapperRaised == call.outcome \in {"raise_before_call", "raise_after_call"}

C34_WrapperNeverRaises ==
    [][(pc = "executing" /\ run.kind = "plan" /\ pc' = "loop") =>
          /\ call'.kind = "wrapper"
          /\ (input.tools[next_step] \notin RegisteredTools =>
                /\ call'.result = Failure("not_found")
                /\ ~call'.dispatched
                /\ ~call'.ran
                /\ UNCHANGED <<last_call_time, call_count, last_tool,
                               last_tool_time, tool_call_count>>
                /\ steps'[next_step].status = "failed")
          /\ (WrapperRaised' =>
                /\ ~call'.result.success
                /\ call'.result.error # "none"
                /\ steps'[next_step].status = "failed")]_vars

C34_Witness ==
    /\ pc = "loop"
    /\ call.kind = "wrapper"
    /\ call.tool = "no_such_tool"
    /\ call.result = Failure("not_found")
    /\ last_tool_time > 0
    /\ steps[run.step].status = "failed"

C34_RaisedAfterTheCall ==
    /\ pc = "loop"
    /\ call.outcome = "raise_after_call"
    /\ call.ran
    /\ call_count[call.tool] > 0
    /\ steps[run.step].status = "failed"

\* ---- DrawOverlay.run ----------------------------------------------------------
\* coords after the parse: "clear", two numbers, four numbers, another count
\* of numbers, or text that is not a number.
CoordKinds == {"clear", "two", "four", "three", "text"}

\* The manager method run calls for the coords, "none" if it calls none.
overlay_op(coords) ==
    CASE coords = "clear" -> "clear"
      [] coords = "two" -> "add_circle"
      [] coords = "four" -> "add_rect"
      [] OTHER -> "none"

\* run(coords) on manager m: the result it returns, the manager it leaves and
\* whether _send_command handed the command to a running child.
DrawOverlay_run(m, coords, spawn) ==
    IF overlay_op(coords) # "none"
    THEN LET r == send_command(m, spawn)
         IN  [m |-> [r.m EXCEPT !.last_ok = r.ok], sent |-> r.ok,
              result |-> [ok |-> TRUE, error |-> "none",
                          type |-> CASE coords = "clear" -> "clear"
                                     [] coords = "two" -> "circle"
                                     [] OTHER -> "rect"]]
    ELSE [m |-> m, sent |-> FALSE,
          result |-> [ok |-> FALSE,
                      error |-> IF coords = "text" THEN "invalid coordinates"
                                ELSE "need 2 or 4 coords",
                      type |-> "none"]]

\* The keys of a result of draw_overlay, as is_successful reads them.
draw_result_keys(result) ==
    [key \in ResultKeys |->
        CASE key = "ok" -> IF result.ok THEN "truthy" ELSE "falsy"
          [] key = "error" -> IF result.error = "none" THEN "absent" ELSE "truthy"
          [] OTHER -> "absent"]

CallDrawOverlay(coords, gap, spawn) ==
    /\ overlay.ops < MaxOverlayOps
    /\ LET op == IF overlay_op(coords) = "none" THEN overlay.last_op
                 ELSE overlay_op(coords)
           r == DrawOverlay_run(Called(overlay, gap, op), coords, spawn)
       IN  /\ overlay' = r.m
           /\ query' = [fn |-> "draw_overlay", coords |-> coords,
                        result |-> r.result, sent |-> r.sent,
                        judged |-> is_successful(ToolClass("draw_overlay"),
                                                 draw_result_keys(r.result))]
    /\ UNCHANGED <<planvars, pc, input, agentvars, ipc, window, vision, session,
                   mouse>>

DrawToolNext ==
    \/ \E coords \in CoordKinds, gap \in Gaps, spawn \in SpawnOutcomes :
          CallDrawOverlay(coords, gap, spawn)
    \/ \E gap \in Gaps, spawn \in SpawnOutcomes, term \in TerminateOutcomes :
          Disable(gap, spawn, term)
    \/ \E gap \in Gaps : Enable(gap)
    \/ ChildExits

DrawToolSpec == OverlayInit /\ [][DrawToolNext]_vars

\* C35: when the overlay is unavailable (disabled, or its child failed to
\* start), a draw_overlay call with well-formed coordinates or 'clear' returns
\* ok false with an error and is_successful judges it unsuccessful; it returns
\* ok true only when the command was handed to a running overlay process.
WellFormedDraw == query.fn = "draw_overlay" /\ overlay_op(query.coords) # "none"

C35_UnavailableOverlayIsReported ==
    WellFormedDraw =>
        /\ query.result.ok => query.sent
        /\ ~query.sent => (/\ ~query.result.ok
                           /\ query.result.error # "none"
                           /\ ~query.judged)

C35_DisabledButOk ==
    /\ WellFormedDraw
    /\ ~overlay.enabled
    /\ ~query.sent
    /\ query.result.ok
    /\ query.judged

C35_ChildFailedButOk ==
    /\ WellFormedDraw
    /\ overlay.enabled
    /\ overlay.alive = {}
    /\ ~query.sent
    /\ query.result.ok

\* ---- fuzzy_match_shortcut ------------------------------------------------------
\* SHORTCUT_MAP in the order of the dict: an action, a string of characters,
\* and the keys it presses.
Shortcut(action, keys) == [action |-> action, keys |-> keys]

SHORTCUT_MAP ==
    << Shortcut(<<"b", "r", "o", "w", "s", "e", "r">>,
                <<"alt", "b">>),
       Shortcut(<<"t", "e", "r", "m", "i", "n", "a", "l">>,
                <<"alt", "t">>),
       Shortcut(<<"f", "i", "n", "d", "e", "r">>,
                <<"alt", "f">>),
       Shortcut(<<"f", "i", "l", "e", " ", "m", "a", "n", "a", "g", "e",
                 "r">>,
                <<"alt", "f">>),
       Shortcut(<<"f", "i", "l", "e", "s">>,
                <<"alt", "f">>),
       Shortcut(<<"n", "e", "w", " ", "t", "a", "b">>,
                <<"ctrl", "t">>),
       Shortcut(<<"c", "l", "o", "s", "e", " ", "t", "a", "b">>,
                <<"ctrl", "w">>),
       Shortcut(<<"r", "e", "o", "p", "e", "n", " ", "t", "a", "b">>,
                <<"ctrl", "shift", "t">>),
       Shortcut(<<"n", "e", "x", "t", " ", "t", "a", "b">>,
                <<"ctrl", "tab">>),
       Shortcut(<<"p", "r", "e", "v", "i", "o", "u", "s", " ", "t", "a",
                 "b">>,
                <<"ctrl", "shift", "tab">>),
       Shortcut(<<"r", "e", "f", "r", "e", "s", "h">>,
                <<"ctrl", "r">>),
       Shortcut(<<"h", "a", "r", "d", " ", "r", "e", "f", "r", "e", "s",
                 "h">>,
                <<"ctrl", "shift", "r">>),
       Shortcut(<<"a", "d", "d", "r", "e", "s", "s", " ", "b", "a", "r">>,
                <<"ctrl", "l">>),
       Shortcut(<<"b", "o", "o", "k", "m", "a", "r", "k", "s">>,
                <<"ctrl", "shift", "b">>),
       Shortcut(<<"h", "i", "s", "t", "o", "r", "y">>,
                <<"ctrl", "h">>),
       Shortcut(<<"d", "o", "w", "n", "l", "o", "a", "d", "s">>,
                <<"ctrl", "j">>),
       Shortcut(<<"f", "i", "n", "d">>,
                <<"ctrl", "f">>),
       Shortcut(<<"f", "u", "l", "l", "s", "c", "r", "e", "e", "n">>,
                <<"f11">>),
       Shortcut(<<"d", "e", "v", "e", "l", "o", "p", "e", "r", " ", "t",
                 "o", "o", "l", "s">>,
                <<"f12">>),
       Shortcut(<<"n", "e", "w", " ", "t", "e", "r", "m", "i", "n", "a",
                 "l", " ", "t", "a", "b">>,
                <<"ctrl", "shift", "t">>),
       Shortcut(<<"c", "l", "o", "s", "e", " ", "t", "e", "r", "m", "i",
                 "n", "a", "l">>,
                <<"ctrl", "shift", "w">>),
       Shortcut(<<"c", "l", "e", "a", "r", " ", "t", "e", "r", "m", "i",
                 "n", "a", "l">>,
                <<"ctrl", "l">>),
       Shortcut(<<"c", "o", "p", "y">>,
                <<"ctrl", "c">>),
       Shortcut(<<"p", "a", "s", "t", "e">>,
                <<"ctrl", "v">>),
       Shortcut(<<"c", "u", "t">>,
                <<"ctrl", "x">>),
       Shortcut(<<"u", "n", "d", "o">>,
                <<"ctrl", "z">>),
       Shortcut(<<"r", "e", "d", "o">>,
                <<"ctrl", "shift", "z">>),
       Shortcut(<<"s", "e", "l", "e", "c", "t", " ", "a", "l", "l">>,
                <<"ctrl", "a">>),
       Shortcut(<<"s", "a", "v", "e">>,
                <<"ctrl", "s">>),
       Shortcut(<<"c", "l", "o", "s", "e", " ", "w", "i", "n", "d", "o",
                 "w">>,
                <<"alt", "f4">>),
       Shortcut(<<"m", "i", "n", "i", "m", "i", "z", "e">>,
                <<"alt", "f9">>),
       Shortcut(<<"m", "a", "x", "i", "m", "i", "z", "e">>,
                <<"alt", "f10">>),
       Shortcut(<<"s", "w", "i", "t", "c", "h", " ", "w", "i", "n", "d",
                 "o", "w">>,
                <<"alt", "tab">>) >>

Alias(alias, action) == [alias |-> alias, action |-> action]

ALIASES ==
    { Alias(<<"o", "p", "e", "n", " ", "b", "r", "o", "w", "s", "e", "r">>,
            <<"b", "r", "o", "w", "s", "e", "r">>),
      Alias(<<"l", "a", "u", "n", "c", "h", " ", "b", "r", "o", "w", "s",
            "e", "r">>,
            <<"b", "r", "o", "w", "s", "e", "r">>),
      Alias(<<"o", "p", "e", "n", " ", "t", "e", "r", "m", "i", "n", "a",
            "l">>,
            <<"t", "e", "r", "m", "i", "n", "a", "l">>),
      Alias(<<"o", "p", "e", "n", " ", "f", "i", "l", "e", "s">>,
            <<"f", "i", "l", "e", " ", "m", "a", "n", "a", "g", "e", "r">>),
      Alias(<<"r", "e", "l", "o", "a", "d">>,
            <<"r", "e", "f", "r", "e", "s", "h">>),
      Alias(<<"g", "o", " ", "f", "u", "l", "l", "s", "c", "r", "e", "e",
            "n">>,
            <<"f", "u", "l", "l", "s", "c", "r", "e", "e", "n">>) }

\* str.strip(): the blanks at both ends removed.
RECURSIVE lstrip(_)
lstrip(str) ==
    IF str # <<>> /\ Head(str) = " " THEN lstrip(Tail(str)) ELSE str

RECURSIVE rstrip(_)
rstrip(str) ==
    IF str # <<>> /\ str[Len(str)] = " "
    THEN rstrip(SubSeq(str, 1, Len(str) - 1)) ELSE str

str_strip(str) == rstrip(lstrip(str))

\* set(str.split()): the maximal runs of characters that are not blanks.
RECURSIVE split_from(_, _)
split_from(str, word) ==
    IF str = <<>> THEN (IF word = <<>> THEN {} ELSE {word})
    ELSE IF Head(str) = " "
    THEN (IF word = <<>> THEN {} ELSE {word}) \cup split_from(Tail(str), <<>>)
    ELSE split_from(Tail(str), Append(word, Head(str)))

split(str) == split_from(str, <<>>)

\* What fuzzy_match_shortcut returns: an action of the table, or None.
Match(action) == [none |-> FALSE, action |-> action]
NoMatch == [none |-> TRUE, action |-> <<>>]

Actions == {SHORTCUT_MAP[i].action : i \in DOMAIN SHORTCUT_MAP}

\* The first position of the table, in dict order, among a set of positions.
First(positions) == CHOOSE i \in positions : \A j \in positions : i <= j

\* len(query_words & key_words)
word_overlap(q, key) == Cardinality(split(q) \cap split(key))

fuzzy_match_shortcut_substring_first(q) ==
    LET query_lower == str_strip(lowered(q))
        substring == {i \in DOMAIN SHORTCUT_MAP :
                        \/ contains(SHORTCUT_MAP[i].action, query_lower)
                        \/ contains(query_lower, SHORTCUT_MAP[i].action)}
        aliased == {a \in ALIASES : a.alias = query_lower}
    IN  IF query_lower \in Actions THEN Match(query_lower)
        ELSE IF substring # {} THEN Match(SHORTCUT_MAP[First(substring)].action)
        ELSE IF aliased # {} THEN Match((CHOOSE a \in aliased : TRUE).action)
        ELSE NoMatch

fuzzy_match_shortcut(q) ==
    LET query_lower == str_strip(lowered(q))
        aliased == {a \in ALIASES : a.alias = query_lower}
        substring == {i \in DOMAIN SHORTCUT_MAP :
                        \/ contains(SHORTCUT_MAP[i].action, query_lower)
                        \/ contains(query_lower, SHORTCUT_MAP[i].action)}
        score(i) == word_overlap(query_lower, SHORTCUT_MAP[i].action)
        best_score == CHOOSE s \in {score(i) : i \in DOMAIN SHORTCUT_MAP} :
                         \A i \in DOMAIN SHORTCUT_MAP : score(i) <= s
        best_match == First({i \in DOMAIN SHORTCUT_MAP : score(i) = best_score})
    IN  IF query_lower \in Actions THEN Match(query_lower)
        ELSE IF aliased # {} THEN Match((CHOOSE a \in aliased : TRUE).action)
        ELSE IF substring # {} THEN Match(SHORTCUT_MAP[First(substring)].action)
        ELSE IF best_score > 0 THEN Match(SHORTCUT_MAP[best_match].action)
        ELSE NoMatch

\* SHORTCUT_MAP[action]
shortcut_keys(action) ==
    SHORTCUT_MAP[CHOOSE i \in DOMAIN SHORTCUT_MAP :
                    SHORTCUT_MAP[i].action = action].keys

\* The pieces the queries are made of.
QueryParts ==
    {<<" ">>,
     <<"b", "r", "o", "w", "s", "e", "r">>,
     <<"B", "r", "o">>,
     <<"o", "p", "e", "n">>,
     <<"f", "i", "l", "e", "s">>,
     <<"t", "a", "b">>,
     <<"n", "e", "w">>,
     <<"r", "e", "l", "o", "a", "d">>,
     <<"x", "y", "z">>,
     <<"t", "e", "r", "m", "i", "n", "a", "l">>,
     <<"c", "l", "o", "s", "e">>,
     <<"r", "e">>}

RECURSIVE Queries(_)
Queries(n) ==
    IF n = 0 THEN {<<>>}
    ELSE LET shorter == Queries(n - 1)
         IN  shorter \cup {q \o part : q \in shorter, part \in QueryParts}

ShortcutInit ==
    /\ \E q \in Queries(MaxQueryParts) :
          input = [kind |-> "shortcut_query", query |-> q]
    /\ PlanIdle
    /\ pc = "tool"
    /\ query = [fn |-> "none"]
    /\ RegistryIdle

CallFuzzyMatchShortcut ==
    /\ pc = "tool"
    /\ query.fn = "none"
    /\ query' = [fn |-> "fuzzy_match_shortcut",
                 ret |-> fuzzy_match_shortcut(input.query)]
    /\ UNCHANGED <<planvars, pc, envvars>>

ShortcutNext == CallFuzzyMatchShortcut

ShortcutSpec == ShortcutInit /\ [][ShortcutNext]_vars

\* C36: fuzzy_match_shortcut resolves a query by exact match, then alias, then
\* substring in either direction, then highest word overlap.  A lower-cased,
\* trimmed query that is a key of the table resolves to itself ("browser" to
\* "browser", mapped to alt+b), and the answer is None only when no key shares
\* a word or a substring with the query.
Trimmed == str_strip(lowered(input.query))

SubstringKeys ==
    {key \in Actions : contains(key, Trimmed) \/ contains(Trimmed, key)}

WordKeys == {key \in Actions : split(key) \cap split(Trimmed) # {}}

AliasTargets == {a.action : a \in {b \in ALIASES : b.alias = Trimmed}}

C36_ShortcutPrecedence ==
    query.fn = "fuzzy_match_shortcut" =>
        /\ Trimmed \in Actions => query.ret = Match(Trimmed)
        /\ (Trimmed \notin Actions /\ AliasTargets # {}) =>
              (~query.ret.none /\ query.ret.action \in AliasTargets)
        /\ (Trimmed \notin Actions /\ AliasTargets = {} /\ SubstringKeys # {}) =>
              (~query.ret.none /\ query.ret.action \in SubstringKeys)
        /\ (Trimmed \notin Actions /\ AliasTargets = {} /\ SubstringKeys = {}
              /\ WordKeys # {}) =>
              /\ ~query.ret.none
              /\ \A key \in Actions :
                    word_overlap(Trimmed, key)
                        <= word_overlap(Trimmed, query.ret.action)
        /\ query.ret.none => (SubstringKeys = {} /\ WordKeys = {})
        /\ Trimmed = <<"b", "r", "o", "w", "s", "e", "r">> =>
              /\ query.ret = Match(Trimmed)
              /\ shortcut_keys(query.ret.action) = <<"alt", "b">>

\* "open files": an alias of "file manager" although the key "files" is a
\* substring of the query.
C36_Witness ==
    /\ query.fn = "fuzzy_match_shortcut"
    /\ Trimmed = <<"o", "p", "e", "n", " ", "f", "i", "l", "e", "s">>
    /\ query.ret = Match(<<"f", "i", "l", "e", " ", "m", "a", "n", "a", "g", "e", "r">>)

C36_WordOverlap ==
    /\ query.fn = "fuzzy_match_shortcut"
    /\ SubstringKeys = {}
    /\ AliasTargets = {}
    /\ Cardinality(WordKeys) > 1
    /\ ~query.ret.none

C36_NoMatch ==
    /\ query.fn = "fuzzy_match_shortcut"
    /\ query.ret.none

\* C37: once a plan step is completed it stays completed for the rest of the
\* plan's execution: its status, result and retry_count never change again and
\* its tool is never executed again, whatever happens to the other steps.
CompletedStepsAreFinal ==
    \A i \in DOMAIN steps :
        steps[i].status = "completed" =>
            /\ i \in DOMAIN steps'
            /\ steps'[i].status = "completed"
            /\ steps'[i].result = steps[i].result
            /\ steps'[i].retry_count = steps[i].retry_count
            /\ attempts'[i] = attempts[i]

C37_CompletedStaysCompleted == [][CompletedStepsAreFinal]_vars

C37_Witness ==
    /\ pc = "loop"
    /\ \E i, j \in DOMAIN steps :
          /\ steps[i].status = "completed"
          /\ attempts[i] = 1
          /\ i < j
          /\ failures[j] >= 2

\* C38: a plan step whose tool returns a result with found false and no error
\* field is recorded as completed, not failed: the steps that depend on it
\* become executable and the step is never run again.
FoundFalse ==
    /\ run.kind = "plan"
    /\ call.kind = "wrapper"
    /\ call.tool = "find_file"
    /\ call.ran
    /\ call.outcome = "found_false"

FoundFalseIsCompleted ==
    (pc = "loop" /\ FoundFalse) =>
        /\ call.result = [error |-> "none", own |-> TRUE, success |-> FALSE]
        /\ steps[run.step].status = "completed"
        /\ consecutive_failures = 0
        /\ \A j \in DOMAIN steps :
              (steps[j].status = "pending" /\ steps[j].dependencies = {run.step}) =>
                  /\ dependencies_met(steps, steps[j])
                  /\ get_next_executable_step(steps) \in 1..j

FoundFalseIsNotRetried ==
    FoundFalse => /\ steps'[run.step].status = "completed"
                  /\ attempts'[run.step] = attempts[run.step]

C38_FoundFalseCompletesTheStep ==
    /\ []FoundFalseIsCompleted
    /\ [][FoundFalseIsNotRetried]_vars

C38_Witness ==
    /\ pc = "executing"
    /\ FoundFalse
    /\ run.step = 1
    /\ next_step = 2
    /\ steps[2].dependencies = {1}
    /\ steps[1].status = "completed"

\* ---- ToolRegistry.get_stats ------------------------------------------------------
RECURSIVE sum_values(_, _)
sum_values(counts, names) ==
    IF names = {} THEN 0
    ELSE LET name == CHOOSE n \in names : TRUE
         IN  counts[name] + sum_values(counts, names \ {name})

\* get_stats(): total_calls and unique_tools (top_tools, the five most called
\* tools, is left out).
get_stats(reg) ==
    [total_calls |-> sum_values(reg.call_count, DOMAIN reg.call_count),
     unique_tools |-> Cardinality({T \in DOMAIN reg.call_count : reg.call_count[T] > 0})]

\* C39: a call the registry rejects before dispatch (unknown_tool,
\* invalid_arguments, tool_conflict) leaves every last-call timestamp, every
\* call counter and the most-recent-tool pointer unchanged, and total_calls of
\* get_stats is the number of calls whose run returned a result.
Rejections == {"unknown_tool", "invalid_arguments", "tool_conflict"}

RejectedCallChangesNothing ==
    (ncalls' = ncalls + 1 /\ ~call'.ran /\ call'.result.error \in Rejections) =>
        UNCHANGED <<last_call_time, call_count, last_tool>>

TotalCountsReturnedRuns ==
    ncalls' = ncalls + 1 =>
        get_stats(Registry)'.total_calls =
            get_stats(Registry).total_calls
                + (IF call'.ran /\ call'.result.own THEN 1 ELSE 0)

C39_RejectedCallsLeaveNoTrace ==
    /\ [](ncalls = 0 => get_stats(Registry).total_calls = 0)
    /\ [](call.kind = "call" => (call.ran \/ call.result.error \in Rejections))
    /\ [][RejectedCallChangesNothing /\ TotalCountsReturnedRuns]_vars

C39_Witness ==
    /\ ncalls = 2
    /\ ~call.ran
    /\ call.result.error = "tool_conflict"
    /\ call.before_last_tool = last_tool
    /\ get_stats(Registry).total_calls = 1

\* C40: in planning mode a step the registry rejects with tool_conflict is
\* recorded as failed and attempted again in the next iteration; by then the
\* inter-step delay, the tool's execution delay and its pre-execution delay have
\* let the 2.0 s conflict window elapse, so the new attempt is not rejected by
\* the same conflict.
Conflicted == call.kind = "wrapper" /\ call.result.error = "tool_conflict"

C40_ConflictIsRetriedAfterTheWindow ==
    run.kind = "plan" =>
        /\ (pc = "loop" /\ Conflicted) => steps[run.step].status = "failed"
        /\ (pc = "executing" /\ Conflicted) =>
              (next_step = run.step /\ can_retry(fail(steps[next_step])))
        /\ (pc = "loop" /\ run.prev_error = "tool_conflict") =>
              /\ run.step = run.prev_step
              /\ ~Conflicted
              /\ call.arrived - last_call_time[call.inv_tool] >= ConflictWindowTicks

C40_Witness ==
    /\ pc = "loop"
    /\ run.kind = "plan"
    /\ run.prev_error = "tool_conflict"
    /\ call.tool = "mouse_click"
    /\ call.inv_tool = "draw_overlay"
    /\ call.dispatched
    /\ call.ran
    /\ steps[run.step].status = "completed"
    /\ failures[run.step] = 1

====
